---------------------------- MODULE Spec2Model ----------------------------
(***************************************************************************)
(* GitCentral source-control plugin: the status ledger                     *)
(* (FGitSourceControlStatusFile), the provider's command queue             *)
(* (FGitSourceControlProvider), and the Check-In and Sync workers          *)
(* (FGitCheckInWorker, FGitSyncWorker) over an abstract git repository.    *)
(***************************************************************************)
EXTENDS Integers, Sequences, FiniteSets, TLC

VARIABLES
    StatusFile,     \* FGitSourceControlStatusFile: SavedStates, CachedStates, bDirty, LoadedData
    disk,           \* contents of .git/gitcentral/status on disk
    crashed,        \* the process died on a failed check()
    RemoteName,     \* FGitSourceControlProvider::RemoteName (live provider setting)
    BranchName,     \* FGitSourceControlProvider::BranchName (live provider setting)
    last,           \* the last ledger call made: its name, arguments and result
    snap,           \* ledger contents at the last CacheStates call, and what happened since
    UseLocking,     \* FGitSourceControlSettings::bUseLocking (live setting)
    GThreadPool,    \* the engine has a thread pool (GThreadPool != nullptr)
    CommandQueue,   \* FGitSourceControlProvider::CommandQueue
    Commands,       \* every FGitSourceControlCommand constructed so far
    StateCache,     \* FGitSourceControlProvider::StateCache
    syncCmd,        \* the command ExecuteSynchronousCommand is waiting for (0: none)
    HEAD,           \* the commit the local branch is at (git rev-parse HEAD)
    RemoteHead,     \* the commit the remote branch is at, as of the last fetch
    Tag,            \* the commit tagged GITCENTRAL_HEAD, if the tag exists
    Index,          \* the git index: "Valid" when nothing is staged
    LocalChanges,   \* files with uncommitted changes in the working tree
    Stash,          \* the stash stack, newest entry first
    Rebase,         \* a rebase in progress, and the commit it started from
    ci,             \* FGitCheckInWorker::Execute: position, locals, and what happened
    sy,             \* FGitSyncWorker::Execute: position, locals, and what happened
    us              \* RunUpdateStatus on one file: position, inputs, and the state it builds

ledgerVars == <<StatusFile, disk, crashed, last, snap>>
settingVars == <<RemoteName, BranchName, UseLocking, GThreadPool>>
providerVars == <<CommandQueue, Commands, StateCache, syncCmd>>
gitVars == <<HEAD, RemoteHead, Tag, Index, LocalChanges, Stash, Rebase>>
workerVars == <<ci, sy, us>>
nonLedgerVars == <<settingVars, providerVars, gitVars, workerVars>>
vars == <<ledgerVars, nonLedgerVars>>

(***************************************************************************)
(* Values                                                                  *)
(***************************************************************************)
Paths == {"a", "b"}

\* EWorkingCopyState::Type
WorkingCopyStates ==
    {"Unknown", "Unchanged", "Added", "Deleted", "Modified", "CheckedOut", "Conflicted",
     "ForcedWriteable", "NotControlled", "Ignored", "Outdated", "Missing"}

\* Revisions a ledger entry can be pinned at: the sentinel "0" or a commit SHA
NoPin == "0"

\* EWorkingCopyState::ToChar
ToChar(State) ==
    CASE State = "Added" -> "A"
      [] State = "Deleted" -> "D"
      [] State = "Modified" -> "M"
      [] State \in {"CheckedOut", "ForcedWriteable"} -> "L"
      [] State = "Conflicted" -> "U"
      [] State = "NotControlled" -> "?"
      [] State = "Ignored" -> "!"
      [] OTHER -> "0"

\* EWorkingCopyState::FromChar
FromChar(c) ==
    CASE c = "A" -> "Added"
      [] c = "D" -> "Deleted"
      [] c = "M" -> "Modified"
      [] c = "L" -> "CheckedOut"
      [] c = "U" -> "Conflicted"
      [] c = "?" -> "NotControlled"
      [] c = "!" -> "Ignored"
      [] OTHER -> "Unknown"

\* struct SavedState, default-constructed
DefaultSavedState == [State |-> "Unknown", CheckedOutRevision |-> NoPin]

\* SavedState::IsValid
SavedStateIsValid(s) == ToChar(s.State) # "0" \/ s.CheckedOutRevision # NoPin

\* SavedState::ToJSon
ToJSon(s) == [state |-> ToChar(s.State), revision |-> s.CheckedOutRevision]

\* SavedState::FromJson
FromJson(j) == [State |-> FromChar(j.state), CheckedOutRevision |-> j.revision]

(***************************************************************************)
(* FGitSourceControlState                                                  *)
(***************************************************************************)
\* A file status; UserLocked is "" and LockId is -1 when nobody holds the lock;
\* History is the sequence of the file's revisions, empty until it is asked for
FileStatus(ws, outdated, user, byOther) ==
    [WorkingCopyState |-> ws, RemoteState |-> "Unknown", CheckedOutRevision |-> NoPin,
     UserLocked |-> user, bLockedByOther |-> byOther, bOutdated |-> outdated,
     bStaged |-> FALSE, LockId |-> -1, History |-> <<>>]

\* FGitSourceControlState(Filename): the placeholder GetStateInternal caches
UnknownState == FileStatus("Unknown", FALSE, "", FALSE)

IsLockedByMe(st) == ~st.bLockedByOther /\ st.UserLocked # ""
IsCheckedOutOther(st) == st.bLockedByOther /\ st.UserLocked # ""
IsModified(st) ==
    st.WorkingCopyState \in
        {"Added", "Deleted", "Modified", "Conflicted", "NotControlled", "ForcedWriteable"}
IsCheckedOut(st) ==
    IF st.WorkingCopyState \in
          {"Added", "Deleted", "Modified", "Conflicted", "CheckedOut", "ForcedWriteable"}
    THEN TRUE
    ELSE IsLockedByMe(st)
IsCurrent(st) == ~st.bOutdated
IsAdded(st) == st.WorkingCopyState \in {"Added", "NotControlled"}
IsDeleted(st) == st.WorkingCopyState = "Deleted"
IsConflicted(st) == st.WorkingCopyState = "Conflicted"
\* CanCheckIn without the test for a lock held by somebody else
CanCheckInIgnoresLock(st) ==
    /\ IsModified(st) \/ IsAdded(st) \/ IsCheckedOut(st)
    /\ IsCurrent(st) /\ ~IsConflicted(st)

\* CanCheckIn
CanCheckIn(st) ==
    /\ IsModified(st) \/ IsAdded(st) \/ IsCheckedOut(st)
    /\ IsCurrent(st) /\ ~IsConflicted(st) /\ ~IsCheckedOutOther(st)
CanUnlock(st) == IsLockedByMe(st)
IsSourceControlled(st) == st.WorkingCopyState \notin {"Ignored", "Unknown"}
CanCheckout(st) ==
    /\ IsSourceControlled(st) /\ ~IsModified(st) /\ ~IsCheckedOut(st)
    /\ ~IsCheckedOutOther(st) /\ IsCurrent(st)
CanEdit(st) == ~IsCheckedOutOther(st) /\ ~IsModified(st)
CanDelete(st) == IsSourceControlled(st) /\ IsCurrent(st) /\ CanEdit(st)
CanLock(st) == st.UserLocked = ""
CanForceWriteable(st) == IsCheckedOutOther(st) /\ ~IsModified(st) /\ ~IsCheckedOut(st)

(***************************************************************************)
(* The folds of a status refresh, each a function of the state it folds    *)
(* into and of what it folds in                                            *)
(***************************************************************************)
\* CombineWithLocalState, were an Unknown state to take the state folded in whatever
\* that state is
CombineWithLocalStateTakesNew(st, Other) ==
    LET ws == st.WorkingCopyState
        o  == Other.WorkingCopyState
    IN  [st EXCEPT !.WorkingCopyState =
            IF ws = "Unknown" THEN o
            ELSE IF o = "Added" THEN (IF ws = "Deleted" THEN "Modified" ELSE ws)
            ELSE IF o = "Deleted" THEN "Deleted"
            ELSE IF o = "Modified" THEN ws
            ELSE IF o = "Conflicted" THEN "Conflicted"
            ELSE ws]

\* CombineWithLocalState's GITCENTRAL_ERROR "Unhandled state combine case"
CombineWithLocalStateLogs(st, Other) ==
    LET ws == st.WorkingCopyState
        o  == Other.WorkingCopyState
    IN  \/ o = "Added" /\ ws # "Deleted"
        \/ o = "Modified" /\ ws \notin {"Added", "Modified"}
        \/ o \in {"Outdated", "Missing"}

\* CombineWithLocalState: Other is the state parsed from status --porcelain
CombineWithLocalState(st, Other) ==
    LET ws == st.WorkingCopyState
        o  == Other.WorkingCopyState
    IN  [st EXCEPT !.WorkingCopyState =
            IF o = "Added" THEN (IF ws = "Deleted" THEN "Modified" ELSE ws)
            ELSE IF o = "Deleted" THEN "Deleted"
            ELSE IF o = "Modified" THEN ws
            ELSE IF o = "Conflicted" THEN "Conflicted"
            ELSE IF ws = "Unknown" THEN o ELSE ws]

\* CombineWithSavedState, were a Deleted entry to mark the file Deleted
CombineWithSavedStateAppliesDeleted(st, SavedState, LocalBranchSha) ==
    [st EXCEPT !.CheckedOutRevision = SavedState.CheckedOutRevision,
               !.WorkingCopyState =
                   IF SavedState.State = "Deleted" THEN "Deleted"
                   ELSE IF SavedState.State \in {"Modified", "CheckedOut"}
                           /\ @ \in {"Unknown", "Unchanged"}
                   THEN "CheckedOut"
                   ELSE @]

\* CombineWithSavedState, were an Unknown or Unchanged entry to make a modified file
\* Unchanged also when it is pinned at the local head
CombineWithSavedStateIgnoresHead(st, SavedState, LocalBranchSha) ==
    LET ws  == st.WorkingCopyState
        pin == SavedState.CheckedOutRevision
        s   == SavedState.State
        pinned == [st EXCEPT !.CheckedOutRevision = pin]
    IN  [pinned EXCEPT !.WorkingCopyState =
            IF s \in {"Modified", "CheckedOut"}
            THEN (IF ws \in {"Unknown", "Unchanged"} THEN "CheckedOut"
                  ELSE IF ws = "NotControlled" /\ pin # NoPin THEN "Modified"
                  ELSE ws)
            ELSE IF s = "Conflicted" THEN "Conflicted"
            ELSE IF s \in {"Unknown", "Unchanged"}
            THEN (IF IsModified(pinned) /\ pin # NoPin THEN "Unchanged" ELSE ws)
            ELSE IF s = "Deleted" THEN ws
            ELSE IF ws = "Unknown" THEN s ELSE ws]

\* CombineWithSavedState: SavedState is the file's ledger entry
CombineWithSavedState(st, SavedState, LocalBranchSha) ==
    LET ws  == st.WorkingCopyState
        pin == SavedState.CheckedOutRevision
        s   == SavedState.State
        pinned == [st EXCEPT !.CheckedOutRevision = pin]
    IN  [pinned EXCEPT !.WorkingCopyState =
            IF s \in {"Modified", "CheckedOut"}
            THEN (IF ws \in {"Unknown", "Unchanged"} THEN "CheckedOut"
                  ELSE IF ws = "NotControlled" /\ pin # NoPin THEN "Modified"
                  ELSE ws)
            ELSE IF s = "Conflicted" THEN "Conflicted"
            ELSE IF s \in {"Unknown", "Unchanged"}
            THEN (IF IsModified(pinned) /\ pin # NoPin /\ pin # LocalBranchSha
                  THEN "Unchanged" ELSE ws)
            ELSE IF s = "Deleted" THEN ws
            ELSE IF ws = "Unknown" THEN s ELSE ws]

\* RunUpdateStatus's look at the disk after the ledger fold: a state other than
\* Unknown of a file that is not there becomes Deleted
CheckOnDisk(st, bIsValid) ==
    IF st.WorkingCopyState # "Unknown" /\ ~bIsValid
    THEN [st EXCEPT !.WorkingCopyState = "Deleted"]
    ELSE st

\* CombineWithRemoteState, were a file that is checked out and not modified to be
\* outdated only
CombineWithRemoteStateOutdatesCheckedOut(st, Other) ==
    LET ws == st.WorkingCopyState
        r  == Other.WorkingCopyState
        seen == [st EXCEPT !.RemoteState = r]
    IN  IF r \in {"Modified", "Deleted"} /\ ws # "Deleted"
        THEN [seen EXCEPT !.WorkingCopyState = IF IsModified(st) THEN "Conflicted"
                                               ELSE "Outdated",
                          !.bOutdated = TRUE]
        ELSE seen

\* CombineWithRemoteState, were a change on the remote to flag the file outdated and
\* leave its working state
CombineWithRemoteStateFlagsOnly(st, Other) ==
    LET r == Other.WorkingCopyState
        seen == [st EXCEPT !.RemoteState = r]
    IN  IF r \in {"Modified", "Deleted", "Added"} /\ st.WorkingCopyState # "Deleted"
        THEN [seen EXCEPT !.bOutdated = TRUE]
        ELSE seen

\* CombineWithRemoteState: Other is the state parsed from diff --name-status
\* <merge base> <remote branch>
CombineWithRemoteState(st, Other) ==
    LET ws == st.WorkingCopyState
        r  == Other.WorkingCopyState
        mine == IsModified(st) \/ IsCheckedOut(st)
        seen == [st EXCEPT !.RemoteState = r]
    IN  IF r = "Added"
        THEN (IF ws = "Deleted" THEN [seen EXCEPT !.bOutdated = FALSE]
              ELSE IF ws = "Unknown"
              THEN [seen EXCEPT !.WorkingCopyState = "Missing", !.bOutdated = TRUE]
              ELSE IF ws \in {"CheckedOut", "Modified", "Added", "NotControlled"}
              THEN [seen EXCEPT !.WorkingCopyState = "Conflicted", !.bOutdated = TRUE]
              ELSE seen)
        ELSE IF r = "Deleted"
        THEN (IF ws = "Deleted" THEN [seen EXCEPT !.WorkingCopyState = "Unknown"]
              ELSE [seen EXCEPT !.WorkingCopyState = IF mine THEN "Conflicted" ELSE "Outdated",
                                !.bOutdated = TRUE])
        ELSE IF r = "Modified"
        THEN (IF ws = "Deleted" THEN seen
              ELSE [seen EXCEPT !.WorkingCopyState = IF mine THEN "Conflicted" ELSE "Outdated",
                                !.bOutdated = TRUE])
        ELSE seen

\* ResolveConflict that leaves the file outdated
ResolveConflictKeepsOutdated(st, OldState, bFileExists) ==
    [st EXCEPT !.WorkingCopyState = OldState]

\* ResolveConflict, were it not to look at the disk
ResolveConflictForgetsDisk(st, OldState, bFileExists) ==
    [st EXCEPT !.WorkingCopyState = OldState, !.bOutdated = FALSE]

\* ResolveConflict
ResolveConflict(st, OldState, bFileExists) ==
    [st EXCEPT !.WorkingCopyState = IF st.RemoteState = "Deleted" /\ bFileExists
                                    THEN "Added" ELSE OldState,
               !.bOutdated = FALSE]

\* RunUpdateStatus's handling of one remote state, were it to resolve only a file
\* pinned at the remote head
ProcessRemoteStatePinAtHeadOnly(st, Other, RemoteBranchSha, bHasLastChange, bFileExists) ==
    LET folded == CombineWithRemoteState(st, Other)
    IN  IF ~IsCurrent(folded) /\ folded.CheckedOutRevision = RemoteBranchSha
        THEN ResolveConflict(folded, st.WorkingCopyState, bFileExists)
        ELSE folded

\* RunUpdateStatus's handling of one remote state: the fold, then ResolveConflict when
\* the file is pinned at the remote head, or at a revision that has the remote
\* branch's last change of the file (bHasLastChange)
ProcessRemoteState(st, Other, RemoteBranchSha, bHasLastChange, bFileExists) ==
    LET folded == CombineWithRemoteState(st, Other)
    IN  IF ~IsCurrent(folded) /\ folded.CheckedOutRevision # NoPin
           /\ (folded.CheckedOutRevision = RemoteBranchSha \/ bHasLastChange)
        THEN ResolveConflict(folded, st.WorkingCopyState, bFileExists)
        ELSE folded

\* CombineWithLockedState, were it to leave the lock's owner out of the state
CombineWithLockedStateDropsOwner(st, Other) ==
    IF ~Other.bLockedByOther
    THEN (IF st.WorkingCopyState \in {"Ignored", "Unknown", "Unchanged"}
          THEN [st EXCEPT !.WorkingCopyState = "CheckedOut"]
          ELSE st)
    ELSE IF IsModified(st) \/ IsCheckedOut(st)
    THEN [st EXCEPT !.WorkingCopyState = "ForcedWriteable"]
    ELSE st

\* CombineWithLockedState, were a lock held by somebody else to force only a
\* modified file writeable
CombineWithLockedStateModifiedOnly(st, Other) ==
    LET locked == [st EXCEPT !.UserLocked = Other.UserLocked,
                             !.bLockedByOther = Other.bLockedByOther,
                             !.LockId = Other.LockId]
    IN  IF IsLockedByMe(locked)
        THEN (IF locked.WorkingCopyState \in {"Ignored", "Unknown", "Unchanged"}
              THEN [locked EXCEPT !.WorkingCopyState = "CheckedOut"]
              ELSE locked)
        ELSE IF IsModified(locked)
        THEN [locked EXCEPT !.WorkingCopyState = "ForcedWriteable"]
        ELSE locked

\* CombineWithLockedState, were the local user's lock to mark every file CheckedOut
CombineWithLockedStateLockWins(st, Other) ==
    LET locked == [st EXCEPT !.UserLocked = Other.UserLocked,
                             !.bLockedByOther = Other.bLockedByOther,
                             !.LockId = Other.LockId]
    IN  IF IsLockedByMe(locked)
        THEN [locked EXCEPT !.WorkingCopyState = "CheckedOut"]
        ELSE IF IsModified(locked) \/ IsCheckedOut(locked)
        THEN [locked EXCEPT !.WorkingCopyState = "ForcedWriteable"]
        ELSE locked

\* CombineWithLockedState: Other is a lock parsed from lfs locks
CombineWithLockedState(st, Other) ==
    LET locked == [st EXCEPT !.UserLocked = Other.UserLocked,
                             !.bLockedByOther = Other.bLockedByOther,
                             !.LockId = Other.LockId]
    IN  IF IsLockedByMe(locked)
        THEN (IF locked.WorkingCopyState \in {"Ignored", "Unknown", "Unchanged"}
              THEN [locked EXCEPT !.WorkingCopyState = "CheckedOut"]
              ELSE locked)
        ELSE IF IsModified(locked) \/ IsCheckedOut(locked)
        THEN [locked EXCEPT !.WorkingCopyState = "ForcedWriteable"]
        ELSE locked

\* The state a parser makes for a file: FGitSourceControlState(File) with the
\* working copy state of the parsed line
Parsed(ws) == [FileStatus(ws, FALSE, "", FALSE) EXCEPT !.WorkingCopyState = ws]

\* A command's output has no line for the file
NoLine == "-"

\* No lock on the file in the output of lfs locks
NoLock == [UserLocked |-> "", bLockedByOther |-> FALSE, LockId |-> -1]

(***************************************************************************)
(* TMap helpers: a map is a function whose domain is the set of its keys   *)
(***************************************************************************)
EmptyMap == <<>>
MapAdd(m, k, v) == [q \in (DOMAIN m) \cup {k} |-> IF q = k THEN v ELSE m[q]]
MapRemove(m, k) == [q \in (DOMAIN m) \ {k} |-> m[q]]

\* LoadedData is a null pointer until a document is loaded or first saved
NullData == [valid |-> FALSE, sections |-> EmptyMap]
JsonObject(sections) == [valid |-> TRUE, sections |-> sections]

\* The status file on disk: absent, or the last document written
NoFile == [exists |-> FALSE, sections |-> EmptyMap]
FileWith(sections) == [exists |-> TRUE, sections |-> sections]

\* The section of a document stored under a remote/branch key
Section(doc, Key) == IF Key \in DOMAIN doc.sections THEN doc.sections[Key] ELSE EmptyMap

\* FGitSourceControlStatusFile::FGitSourceControlStatusFile
NewStatusFile ==
    [SavedStates |-> EmptyMap, CachedStates |-> EmptyMap, bDirty |-> FALSE,
     LoadedData |-> NullData]

(***************************************************************************)
(* FGitSourceControlStatusFile                                             *)
(***************************************************************************)
\* Variant of CacheStates that keeps the previous snapshot instead of copying
CacheStatesKeepsOld(sf) == sf

\* CacheStates
CacheStates(sf) == [sf EXCEPT !.CachedStates = sf.SavedStates]

\* ClearCache
ClearCache(sf) == [sf EXCEPT !.CachedStates = EmptyMap]

\* Variant of RestoreCachedStates that leaves the map as it is
RestoreCachedStatesKeepsMap(sf) == sf

\* RestoreCachedStates
RestoreCachedStates(sf) == [sf EXCEPT !.SavedStates = sf.CachedStates]

\* GetState
GetState(sf, InFilePath) ==
    IF InFilePath \in DOMAIN sf.SavedStates THEN sf.SavedStates[InFilePath]
    ELSE DefaultSavedState

\* The remote/branch key Save and Load read from the provider
ProviderKey(remote, branch) == <<remote, branch>>

\* The document Save builds in LoadedData before it writes the file
SaveDocument(sf, Key) ==
    LET valid == {p \in DOMAIN sf.SavedStates : SavedStateIsValid(sf.SavedStates[p])}
        JsonStatesMap == [p \in valid |-> ToJSon(sf.SavedStates[p])]
    IN  IF DOMAIN sf.SavedStates # {}
        THEN IF valid # {}
             THEN JsonObject(MapAdd(sf.LoadedData.sections, Key, JsonStatesMap))
             ELSE JsonObject(MapRemove(sf.LoadedData.sections, Key))
        ELSE IF sf.LoadedData.valid
             THEN JsonObject(MapRemove(sf.LoadedData.sections, Key))
             ELSE NullData

\* Save: the result is the status file afterwards, the return value, whether the
\* file was written, and whether LoadedData.ToSharedRef() hit its check on a null
\* pointer.  writeOk is the outcome of serializing and writing the file.
Save(sf, Key, bForce, writeOk) ==
    IF ~sf.bDirty /\ ~bForce
    THEN [sf |-> sf, ret |-> TRUE, wrote |-> FALSE, crash |-> FALSE]
    ELSE LET doc == SaveDocument(sf, Key)
             built == [sf EXCEPT !.LoadedData = doc]
         IN  IF ~doc.valid
             THEN [sf |-> built, ret |-> FALSE, wrote |-> FALSE, crash |-> TRUE]
             ELSE IF ~writeOk
             THEN [sf |-> built, ret |-> FALSE, wrote |-> FALSE, crash |-> FALSE]
             ELSE [sf |-> ClearCache([built EXCEPT !.bDirty = FALSE]),
                   ret |-> TRUE, wrote |-> TRUE, crash |-> FALSE]

\* SetState, existing entry: "SavedState OldState = InState" keeps the new value,
\* so the assignment on failure writes InState back
SetStateFound(sf, InFilePath, InState, Key, bSave, writeOk) ==
    LET OldState == InState
        set == [sf EXCEPT !.bDirty = TRUE, !.SavedStates[InFilePath] = InState]
        sv == Save(set, Key, FALSE, writeOk)
    IN  IF ~bSave THEN [sf |-> set, ret |-> TRUE, wrote |-> FALSE, crash |-> FALSE]
        ELSE IF sv.ret THEN sv
        ELSE [sv EXCEPT !.sf.SavedStates[InFilePath] = OldState,
                        !.sf.bDirty = sf.bDirty]

\* SetState, no entry yet
SetStateNew(sf, InFilePath, InState, Key, bSave, writeOk) ==
    LET set == [sf EXCEPT !.bDirty = TRUE,
                          !.SavedStates = MapAdd(sf.SavedStates, InFilePath, InState)]
        sv == Save(set, Key, FALSE, writeOk)
    IN  IF ~bSave THEN [sf |-> set, ret |-> TRUE, wrote |-> FALSE, crash |-> FALSE]
        ELSE IF sv.ret THEN sv
        ELSE [sv EXCEPT !.sf.SavedStates = MapRemove(sv.sf.SavedStates, InFilePath),
                        !.sf.bDirty = sf.bDirty]

\* SetState
SetState(sf, InFilePath, InState, Key, bSave, writeOk) ==
    IF InFilePath \in DOMAIN sf.SavedStates
    THEN SetStateFound(sf, InFilePath, InState, Key, bSave, writeOk)
    ELSE SetStateNew(sf, InFilePath, InState, Key, bSave, writeOk)

\* ClearState
ClearState(sf, InFilePath, Key, bSave, writeOk) ==
    LET bFound == InFilePath \in DOMAIN sf.SavedStates
        removed == [sf EXCEPT !.bDirty = TRUE,
                              !.SavedStates = MapRemove(sf.SavedStates, InFilePath)]
        sv == Save(removed, Key, FALSE, writeOk)
    IN  IF ~bFound THEN [sf |-> sf, ret |-> FALSE, wrote |-> FALSE, crash |-> FALSE]
        ELSE IF ~bSave THEN [sf |-> removed, ret |-> TRUE, wrote |-> FALSE, crash |-> FALSE]
        ELSE IF sv.ret THEN sv
        ELSE [sv EXCEPT !.sf.bDirty = sf.bDirty]

\* LoadStatusFile, for a file that holds a JSON document: SavedStates is rebuilt from
\* the section of the provider's remote/branch.  No file: nothing is loaded.
LoadStatusFile(sf, d, Key) ==
    IF ~d.exists THEN sf
    ELSE [SavedStates |-> [p \in DOMAIN Section(d, Key) |-> FromJson(Section(d, Key)[p])],
          CachedStates |-> EmptyMap, bDirty |-> FALSE,
          LoadedData |-> JsonObject(d.sections)]

\* Load: the status file is read; when there is none, the legacy file is looked for,
\* read, saved as the status file and deleted.  readOk is the outcome of reading a
\* file that exists, writeOk that of the write in Save.  With no file at all Load
\* returns true before anything is reset.
Load(sf, d, legacy, Key, readOk, writeOk) ==
    IF d.exists /\ readOk
    THEN [sf |-> LoadStatusFile(sf, d, Key), ret |-> TRUE, wrote |-> FALSE, crash |-> FALSE]
    ELSE IF d.exists
    THEN [sf |-> sf, ret |-> FALSE, wrote |-> FALSE, crash |-> FALSE]
    ELSE IF ~legacy.exists
    THEN [sf |-> sf, ret |-> TRUE, wrote |-> FALSE, crash |-> FALSE]
    ELSE IF readOk
    THEN Save(LoadStatusFile(sf, legacy, Key), Key, TRUE, writeOk)
    ELSE [sf |-> sf, ret |-> FALSE, wrote |-> FALSE, crash |-> FALSE]

\* Commands constructed in one run
MaxCommands == 2
CommandIds == 1..MaxCommands

Remotes == {"origin", "backup"}

\* A slot no command was constructed in yet
NoCommand ==
    [used |-> FALSE, File |-> "-", Remote |-> "-", Branch |-> "-", bUseLocking |-> FALSE,
     bExecuteProcessed |-> FALSE, bCommandSuccessful |-> FALSE, bAutoDelete |-> TRUE,
     States |-> EmptyMap, nExecute |-> 0, bAbandoned |-> FALSE, nUpdateStates |-> 0,
     bFromDelegate |-> FALSE, deleted |-> FALSE, bQueuedWork |-> FALSE,
     bRefreshFailed |-> FALSE,
     ErrorMessages |-> <<>>,
     InfoMessages |-> <<>>]

(***************************************************************************)
(* The git repository                                                      *)
(***************************************************************************)
\* Commits: c0 is the common root, c1 a local commit, r1 a commit made on the
\* remote by somebody else, c1r the commit c1 becomes when rebased onto r1, n_c1 and
\* n_r1 the commit a Check-In makes on top of c1 and of r1
Commits == {"c0", "c1", "r1", "c1r", "n_c1", "n_r1"}
NoRef == "none"
ParentOf ==
    [c \in Commits |->
        CASE c = "c0" -> NoRef
          [] c = "c1" -> "c0"
          [] c = "r1" -> "c0"
          [] c = "c1r" -> "r1"
          [] c = "n_c1" -> "c1"
          [] c = "n_r1" -> "r1"]

RECURSIVE Ancestors(_)
Ancestors(c) == IF c = NoRef THEN {} ELSE {c} \cup Ancestors(ParentOf[c])

\* git merge-base a b
GetMergeBase(a, b) ==
    LET common == Ancestors(a) \cap Ancestors(b)
    IN  CHOOSE m \in common : \A x \in common : x \in Ancestors(m)

\* git commit on top of p
CommitOn(p) == CHOOSE n \in {"n_c1", "n_r1"} : ParentOf[n] = p

\* git pull --rebase of local onto remote, when it runs to the end
RebasedOnto(local, remote) == IF local \in Ancestors(remote) THEN remote ELSE "c1r"

NoRebase == [active |-> FALSE, orig |-> NoRef]

\* No Check-In has been started
NoCheckIn ==
    [pc |-> "idle", Files |-> {}, bUseLocking |-> FALSE, bCommandSuccessful |-> FALSE,
     bUpToDate |-> FALSE, FilesToAdd |-> {}, Requested |-> {}, start |-> NoRef, startLedger |-> EmptyMap, tagged |-> FALSE,
     softReset |-> FALSE, committed |-> FALSE, pushRan |-> FALSE, pushFailed |-> FALSE,
     startCache |-> EmptyMap, Ahead |-> {}, ran |-> {}, Staged |-> {}, Committed |-> {},
     Pushed |-> {}, exit |-> "-"]

\* No Sync has been started
NoSync ==
    [pc |-> "idle", Files |-> {}, bCommandSuccessful |-> FALSE, bStash |-> FALSE,
     Conflicts |-> {}, FilesToSync |-> {}, ToDo |-> {}, Removed |-> {}, States |-> EmptyMap,
     rounds |-> 0, run |-> 1, start |-> NoRef, startLedger |-> EmptyMap,
     startChanges |-> {}, startIndex |-> "Valid", ledgerWritten |-> FALSE,
     snapshot |-> EmptyMap, rebaseFailed |-> FALSE, popFailed |-> FALSE,
     resetFailed |-> FALSE,
     saveFailed |-> FALSE, refreshed |-> FALSE, exit |-> "-", prev |-> "-"]

\* RunUpdateStatus has not been called
NoUpdate ==
    [pc |-> "idle", File |-> "a", LocalBranchSha |-> NoRef, RemoteBranchSha |-> NoRef,
     in |-> [Diff |-> NoLine, Status |-> "Unchanged", bIsValid |-> TRUE, Remote |-> NoLine,
             bHasLastChange |-> FALSE, Lock |-> NoLock],
     st |-> UnknownState, OldState |-> "Unknown", ins |-> EmptyMap, States |-> EmptyMap,
     fold |-> "none", before |-> UnknownState, Other |-> UnknownState,
     SavedState |-> DefaultSavedState, logged |-> FALSE,
     Changed |-> {}, resolved |-> FALSE]

\* What RunUpdateStatus reads for one file: the line for it of diff --name-status
\* <merge base> <branch> (Diff), the state ParseStatusResults gives it (Status),
\* whether it is on the disk (bIsValid), the line for it of diff --name-status <merge
\* base> <remote branch> (Remote), whether the pin has the remote branch's last
\* change of it (bHasLastChange), and its lock.  A diff from the merge base has lines
\* only when the branch it goes to is not at the merge base.
StatusInputs(LocalBranchSha, RemoteBranchSha, bUseLocking) ==
    LET MergeBase == GetMergeBase(LocalBranchSha, RemoteBranchSha)
    IN  [Diff : IF LocalBranchSha # MergeBase THEN {NoLine, "Modified"} ELSE {NoLine},
         Status : {"Unchanged", "Modified", "Conflicted"},
         bIsValid : BOOLEAN,
         Remote : IF RemoteBranchSha # MergeBase
                  THEN {NoLine, "Modified", "Added", "Deleted"} ELSE {NoLine},
         bHasLastChange : IF RemoteBranchSha # MergeBase THEN BOOLEAN ELSE {FALSE},
         Lock : IF bUseLocking
                THEN {NoLock, [UserLocked |-> "me", bLockedByOther |-> FALSE, LockId |-> 1],
                      [UserLocked |-> "other", bLockedByOther |-> TRUE, LockId |-> 2]}
                ELSE {NoLock}]

\* RunUpdateStatus for one file, the folds in the order it applies them
RunUpdateStatus(in, SavedState, LocalBranchSha, RemoteBranchSha) ==
    LET local  == IF in.Diff = NoLine THEN Parsed(in.Status)
                  ELSE CombineWithLocalState(Parsed(in.Diff), Parsed(in.Status))
        saved  == CheckOnDisk(CombineWithSavedState(local, SavedState, LocalBranchSha),
                              in.bIsValid)
        remote == IF in.Remote = NoLine THEN saved
                  ELSE ProcessRemoteState(saved, Parsed(in.Remote), RemoteBranchSha,
                                          in.bHasLastChange, in.bIsValid)
    IN  IF in.Lock = NoLock THEN remote ELSE CombineWithLockedState(remote, in.Lock)

(***************************************************************************)
(* The ledger on its own: any sequence of calls of its public methods      *)
(***************************************************************************)
\* Ledger entries the callers write (Operations.cpp writes CheckedOut, Unchanged,
\* Conflicted, Deleted and Unknown states, pinned at "0" or at a commit)
InputSavedStates ==
    {[State |-> "CheckedOut", CheckedOutRevision |-> NoPin],
     [State |-> "Unchanged", CheckedOutRevision |-> "c1"]}

NoCall ==
    [op |-> "none", saveFailed |-> FALSE, ret |-> TRUE, bLegacy |-> FALSE, readOk |-> TRUE,
     bAncestor |-> TRUE, Cleared |-> {}, File |-> "", acted |-> FALSE, outcome |-> "-",
     n |-> 0, Filter |-> <<>>, bWasSuccessful |-> FALSE]
NoSnapshot == [taken |-> FALSE, states |-> EmptyMap, cleared |-> FALSE, written |-> FALSE]

\* The state after module start-up: an empty ledger, no status file, the provider on
\* origin/master, nothing queued
InitLedger ==
    /\ StatusFile = NewStatusFile
    /\ disk = NoFile
    /\ crashed = FALSE
    /\ last = NoCall
    /\ snap = NoSnapshot
    /\ RemoteName = "origin"
    /\ BranchName = "master"
    /\ UseLocking = FALSE
    /\ GThreadPool = TRUE
    /\ CommandQueue = <<>>
    /\ Commands = [c \in 1..MaxCommands |-> NoCommand]
    /\ StateCache = EmptyMap
    /\ syncCmd = 0
    /\ HEAD = "c1"
    /\ RemoteHead = "c1"
    /\ Tag = NoRef
    /\ Index = "Valid"
    /\ LocalChanges = {}
    /\ Stash = <<>>
    /\ Rebase = NoRebase
    /\ ci = NoCheckIn
    /\ sy = NoSync
    /\ us = NoUpdate

LiveKey == ProviderKey(RemoteName, BranchName)

\* The effect of one ledger call's result r on the status file, the disk and the
\* bookkeeping of what happened since the snapshot
Commit(r, op, bSave, mutates) ==
    /\ StatusFile' = r.sf
    /\ disk' = IF r.wrote THEN FileWith(r.sf.LoadedData.sections) ELSE disk
    /\ crashed' = r.crash
    /\ last' = [NoCall EXCEPT !.op = op, !.ret = r.ret,
                               !.saveFailed = bSave /\ ~r.wrote /\ ~r.crash /\ ~r.ret]
    /\ snap' = [snap EXCEPT !.cleared = snap.cleared \/ (snap.taken /\ r.wrote),
                            !.written = snap.written \/ (snap.taken /\ mutates)]

CallSetState ==
    /\ ~crashed
    /\ \E path \in Paths, InState \in InputSavedStates, bSave \in BOOLEAN, writeOk \in BOOLEAN :
          Commit(SetState(StatusFile, path, InState, LiveKey, bSave, writeOk),
                 "SetState", bSave, TRUE)
    /\ UNCHANGED nonLedgerVars

CallClearState ==
    /\ ~crashed
    /\ \E path \in Paths, bSave \in BOOLEAN, writeOk \in BOOLEAN :
          Commit(ClearState(StatusFile, path, LiveKey, bSave, writeOk),
                 "ClearState", bSave /\ path \in DOMAIN StatusFile.SavedStates,
                 path \in DOMAIN StatusFile.SavedStates)
    /\ UNCHANGED nonLedgerVars

CallSave ==
    /\ ~crashed
    /\ \E bForce \in BOOLEAN, writeOk \in BOOLEAN :
          Commit(Save(StatusFile, LiveKey, bForce, writeOk), "Save",
                 StatusFile.bDirty \/ bForce, FALSE)
    /\ UNCHANGED nonLedgerVars

CallCacheStates ==
    /\ ~crashed
    /\ StatusFile' = CacheStates(StatusFile)
    /\ snap' = [taken |-> TRUE, states |-> StatusFile.SavedStates,
                cleared |-> FALSE, written |-> FALSE]
    /\ last' = [NoCall EXCEPT !.op = "CacheStates"]
    /\ UNCHANGED <<disk, crashed, nonLedgerVars>>

CallRestoreCachedStates ==
    /\ ~crashed
    /\ StatusFile' = RestoreCachedStates(StatusFile)
    /\ last' = [NoCall EXCEPT !.op = "RestoreCachedStates"]
    /\ UNCHANGED <<disk, crashed, snap, nonLedgerVars>>

\* The legacy status file: none, or one with an entry
LegacyFiles ==
    {NoFile,
     FileWith(MapAdd(EmptyMap, ProviderKey("origin", "master"),
                     MapAdd(EmptyMap, "a",
                            ToJSon([State |-> "CheckedOut", CheckedOutRevision |-> NoPin]))))}

CallLoad ==
    /\ ~crashed
    /\ \E legacy \in LegacyFiles, readOk \in BOOLEAN, writeOk \in BOOLEAN :
          LET r == Load(StatusFile, disk, legacy, LiveKey, readOk, writeOk)
              loaded == readOk /\ (disk.exists \/ legacy.exists)
          IN  /\ StatusFile' = r.sf
              /\ disk' = IF r.wrote THEN FileWith(r.sf.LoadedData.sections) ELSE disk
              /\ crashed' = r.crash
              /\ last' = [NoCall EXCEPT !.op = "Load", !.ret = r.ret,
                                        !.bLegacy = legacy.exists, !.readOk = readOk]
              /\ snap' = [snap EXCEPT !.cleared = snap.cleared \/ (snap.taken /\ loaded),
                                      !.written = snap.written \/ (snap.taken /\ loaded)]
    /\ UNCHANGED nonLedgerVars

LedgerNext ==
    \/ CallLoad
    \/ CallSetState
    \/ CallClearState
    \/ CallSave
    \/ CallCacheStates
    \/ CallRestoreCachedStates

(***************************************************************************)
(* FGitSourceControlProvider: commands, the worker pool and Tick           *)
(***************************************************************************)
\* A constructor that starts the command with bExecuteProcessed set
NewCommandProcessed(file, remote, branch, locking, autoDelete) ==
    [NoCommand EXCEPT !.used = TRUE, !.File = file, !.Remote = remote, !.Branch = branch,
                      !.bUseLocking = locking, !.bAutoDelete = autoDelete,
                      !.bExecuteProcessed = TRUE]

\* FGitSourceControlCommand::FGitSourceControlCommand, for a CheckOut of one file:
\* the provider's settings are copied into the command
NewCommand(file, remote, branch, locking, autoDelete) ==
    [NoCommand EXCEPT !.used = TRUE, !.File = file, !.Remote = remote, !.Branch = branch,
                      !.bUseLocking = locking, !.bAutoDelete = autoDelete]

\* FGitSourceControlProvider::GetStateInternal: a miss caches an Unknown placeholder
GetStateInternal(cache, Filename) ==
    IF Filename \in DOMAIN cache THEN cache ELSE MapAdd(cache, Filename, UnknownState)

\* The status RunUpdateStatus reports for a file that is unmodified in the working
\* tree and current with the remote: the ledger decides (CombineWithSavedState)
RefreshedState(sf, File) ==
    IF GetState(sf, File).State \in {"CheckedOut", "Modified"}
    THEN FileStatus("CheckedOut", FALSE, "", FALSE)
    ELSE FileStatus("Unchanged", FALSE, "", FALSE)

\* FGitSourceControlState::operator== on two states of the same file: the history
\* and the lock's id are not compared
Equals(State, Other) ==
    /\ State.WorkingCopyState = Other.WorkingCopyState
    /\ State.RemoteState = Other.RemoteState
    /\ State.bOutdated = Other.bOutdated
    /\ State.bStaged = Other.bStaged
    /\ State.CheckedOutRevision = Other.CheckedOutRevision
    /\ State.UserLocked = Other.UserLocked
    /\ State.bLockedByOther = Other.bLockedByOther

\* UpdateCachedStates, were the new state to replace the cached one whole
UpdateCachedStatesTakesHistory(cache, InStates) ==
    [q \in (DOMAIN cache) \cup (DOMAIN InStates) |->
        IF q \in DOMAIN InStates THEN InStates[q] ELSE cache[q]]

\* GitSourceControlUtils::UpdateCachedStates: InStates maps each file of the array to
\* its state; a state that differs from the cached one replaces it, the cached
\* history is kept
UpdateCachedStates(cache, InStates) ==
    [q \in (DOMAIN cache) \cup (DOMAIN InStates) |->
        IF q \notin DOMAIN InStates THEN cache[q]
        ELSE LET State == IF q \in DOMAIN cache THEN cache[q] ELSE UnknownState
             IN  IF Equals(State, InStates[q]) THEN State
                 ELSE [InStates[q] EXCEPT !.History = State.History]]

\* UpdateCachedStates's count of the states it replaced
NbStatesUpdated(cache, InStates) ==
    Cardinality({q \in DOMAIN InStates :
                    ~Equals(IF q \in DOMAIN cache THEN cache[q] ELSE UnknownState,
                            InStates[q])})

\* FGitCheckOutWorker::Execute on the ledger: mark the file CheckedOut unless its
\* cached state is already checked out or conflicted, then Save
CheckOutLedger(sf, cache, File, Key, writeOk) ==
    LET State == GetStateInternal(cache, File)[File]
        FileState == GetState(sf, File)
        marked ==
            IF IsCheckedOut(State) \/ IsConflicted(State) \/ IsCheckedOutOther(State) THEN sf
            ELSE IF FileState.State \in {"Unknown", "Unchanged"}
            THEN SetState(sf, File, [FileState EXCEPT !.State = "CheckedOut"],
                          Key, FALSE, TRUE).sf
            ELSE sf
    IN  Save(marked, Key, FALSE, writeOk)

\* Index in the queue of the last command whose Execute has been processed (0: none)
LastProcessed(q, cs) ==
    IF \E i \in 1..Len(q) : cs[q[i]].bExecuteProcessed
    THEN CHOOSE i \in 1..Len(q) :
            /\ cs[q[i]].bExecuteProcessed
            /\ \A j \in (i + 1)..Len(q) : ~cs[q[j]].bExecuteProcessed
    ELSE 0

\* Index in the queue of the first command whose Execute has been processed (0: none)
FirstProcessed(q, cs) ==
    IF \E i \in 1..Len(q) : cs[q[i]].bExecuteProcessed
    THEN CHOOSE i \in 1..Len(q) :
            /\ cs[q[i]].bExecuteProcessed
            /\ \A j \in 1..(i - 1) : ~cs[q[j]].bExecuteProcessed
    ELSE 0

RemoveAt(q, i) == [j \in 1..(Len(q) - 1) |-> IF j < i THEN q[j] ELSE q[j + 1]]

\* FGitSourceControlProvider::Tick: the first processed command leaves the queue,
\* its worker's UpdateStates runs, and it is deleted when bAutoDelete
TickQueue(q, cs) ==
    IF FirstProcessed(q, cs) = 0 THEN q ELSE RemoveAt(q, FirstProcessed(q, cs))

TickCommands(q, cs) ==
    IF FirstProcessed(q, cs) = 0 THEN cs
    ELSE LET c == q[FirstProcessed(q, cs)]
         IN  [cs EXCEPT ![c].nUpdateStates = @ + 1, ![c].deleted = cs[c].bAutoDelete]

TickCache(q, cs, cache) ==
    IF FirstProcessed(q, cs) = 0 THEN cache
    ELSE UpdateCachedStates(cache, cs[q[FirstProcessed(q, cs)]].States)

\* CommandQueue.Remove(&InCommand)
RemoveCommand(q, c) == SelectSeq(q, LAMBDA x : x # c)

\* Tick: what OperationCompleteDelegate.ExecuteIfBound can do to the queue.  The
\* delegate of the command Tick handles submits nothing (0), or one asynchronous
\* command, in the free slot with the smallest id.
Delegated(q, cs) ==
    LET free == {c \in CommandIds : ~cs[c].used}
    IN  IF FirstProcessed(q, cs) = 0 \/ free = {} THEN {0}
        ELSE {0, CHOOSE c \in free : \A d \in free : c <= d}

\* IssueCommand from the delegate: CommandQueue.Add
DelegateQueue(q, new) == IF new = 0 THEN q ELSE Append(q, new)

DelegateCommands(cs, new, cmd) ==
    IF new = 0 THEN cs
    ELSE [cs EXCEPT ![new] = [cmd EXCEPT !.bFromDelegate = TRUE, !.bQueuedWork = TRUE]]

InitProvider ==
    /\ StatusFile = NewStatusFile
    /\ disk = NoFile
    /\ crashed = FALSE
    /\ last = NoCall
    /\ snap = NoSnapshot
    /\ RemoteName = "origin"
    /\ BranchName = "master"
    /\ UseLocking \in BOOLEAN
    /\ GThreadPool \in BOOLEAN
    /\ CommandQueue = <<>>
    /\ Commands = [c \in CommandIds |-> NoCommand]
    /\ StateCache = EmptyMap
    /\ syncCmd = 0
    /\ HEAD = "c1"
    /\ RemoteHead = "c1"
    /\ Tag = NoRef
    /\ Index = "Valid"
    /\ LocalChanges = {}
    /\ Stash = <<>>
    /\ Rebase = NoRebase
    /\ ci = NoCheckIn
    /\ sy = NoSync
    /\ us = NoUpdate

FreeIds == {c \in CommandIds : ~Commands[c].used}
NextId == CHOOSE c \in FreeIds : \A d \in FreeIds : c <= d

\* IssueCommand: the command is given to the thread pool and added to the queue when
\* there is a thread pool, and is otherwise left where it is
IssueCommand(q, cs, c, cmd, pool) ==
    [CommandQueue |-> IF pool THEN Append(q, c) ELSE q,
     Commands |-> [cs EXCEPT ![c] = [cmd EXCEPT !.bQueuedWork = pool]]]

\* Execute(CheckOut, {file}, Asynchronous): construct and IssueCommand
ExecuteAsynchronous ==
    /\ ~crashed /\ syncCmd = 0 /\ FreeIds # {}
    /\ \E file \in Paths :
          LET r == IssueCommand(CommandQueue, Commands, NextId,
                                NewCommand(file, RemoteName, BranchName, UseLocking, TRUE),
                                GThreadPool)
          IN  /\ Commands' = r.Commands
              /\ CommandQueue' = r.CommandQueue
    /\ UNCHANGED <<ledgerVars, settingVars, StateCache, syncCmd, gitVars, workerVars>>

\* Execute(CheckOut, {file}, Synchronous): construct, then ExecuteSynchronousCommand
\* up to IssueCommand
ExecuteSynchronousCommand_Issue ==
    /\ ~crashed /\ syncCmd = 0 /\ FreeIds # {}
    /\ \E file \in Paths :
          LET r == IssueCommand(CommandQueue, Commands, NextId,
                                NewCommand(file, RemoteName, BranchName, UseLocking, FALSE),
                                GThreadPool)
          IN  /\ Commands' = r.Commands
              /\ CommandQueue' = r.CommandQueue
    /\ syncCmd' = NextId
    /\ UNCHANGED <<ledgerVars, settingVars, StateCache, gitVars, workerVars>>

\* ExecuteSynchronousCommand: one round of the wait loop
ExecuteSynchronousCommand_Wait ==
    /\ ~crashed /\ syncCmd # 0
    /\ ~Commands[syncCmd].bExecuteProcessed
    /\ \E new \in Delegated(CommandQueue, Commands), file \in Paths :
          /\ CommandQueue' = DelegateQueue(TickQueue(CommandQueue, Commands), new)
          /\ Commands' = DelegateCommands(TickCommands(CommandQueue, Commands), new,
                              NewCommand(file, RemoteName, BranchName, UseLocking, TRUE))
    /\ StateCache' = TickCache(CommandQueue, Commands, StateCache)
    /\ UNCHANGED <<ledgerVars, settingVars, syncCmd, gitVars, workerVars>>

\* ExecuteSynchronousCommand: the loop has ended; one more Tick, then the command
\* is removed from the queue if it is still there, and deleted
ExecuteSynchronousCommand_Return ==
    /\ ~crashed /\ syncCmd # 0
    /\ Commands[syncCmd].bExecuteProcessed
    /\ \E new \in Delegated(CommandQueue, Commands), file \in Paths :
          /\ CommandQueue' = RemoveCommand(
                                DelegateQueue(TickQueue(CommandQueue, Commands), new), syncCmd)
          /\ Commands' = [DelegateCommands(TickCommands(CommandQueue, Commands), new,
                               NewCommand(file, RemoteName, BranchName, UseLocking, TRUE))
                             EXCEPT ![syncCmd].deleted = TRUE]
    /\ StateCache' = TickCache(CommandQueue, Commands, StateCache)
    /\ syncCmd' = 0
    /\ UNCHANGED <<ledgerVars, settingVars, gitVars, workerVars>>

\* The editor's periodic Tick
Tick ==
    /\ ~crashed /\ syncCmd = 0
    /\ CommandQueue # <<>>
    /\ \E new \in Delegated(CommandQueue, Commands), file \in Paths :
          /\ CommandQueue' = DelegateQueue(TickQueue(CommandQueue, Commands), new)
          /\ Commands' = DelegateCommands(TickCommands(CommandQueue, Commands), new,
                              NewCommand(file, RemoteName, BranchName, UseLocking, TRUE))
    /\ StateCache' = TickCache(CommandQueue, Commands, StateCache)
    /\ UNCHANGED <<ledgerVars, settingVars, syncCmd, gitVars, workerVars>>

\* FGitSourceControlCommand::DoThreadedWork on a pool thread:
\* FGitCheckOutWorker::Execute, then bExecuteProcessed is set
DoThreadedWork(c) ==
    /\ ~crashed
    /\ Commands[c].used /\ Commands[c].bQueuedWork /\ ~Commands[c].bExecuteProcessed
    /\ \E lockOk \in BOOLEAN, writeOk \in BOOLEAN, refreshOk \in BOOLEAN :
          LET cmd == Commands[c]
              cached == GetStateInternal(StateCache, cmd.File)
              r == CheckOutLedger(StatusFile, StateCache, cmd.File, LiveKey, writeOk)
          IN  /\ StateCache' = cached
              /\ IF cmd.bUseLocking /\ ~lockOk
                 THEN /\ Commands' = [Commands EXCEPT ![c].bExecuteProcessed = TRUE,
                                                      ![c].nExecute = @ + 1]
                      /\ UNCHANGED ledgerVars
                 ELSE /\ StatusFile' = r.sf
                      /\ disk' = IF r.wrote THEN FileWith(r.sf.LoadedData.sections) ELSE disk
                      /\ crashed' = r.crash
                      /\ UNCHANGED <<last, snap>>
                      /\ Commands' =
                            [Commands EXCEPT
                                ![c].bExecuteProcessed = TRUE,
                                ![c].nExecute = @ + 1,
                                ![c].bCommandSuccessful = r.ret,
                                ![c].bRefreshFailed = r.ret /\ ~refreshOk,
                                ![c].States =
                                    IF r.ret /\ refreshOk
                                    THEN MapAdd(EmptyMap, cmd.File,
                                                RefreshedState(r.sf, cmd.File))
                                    ELSE EmptyMap]
    /\ UNCHANGED <<settingVars, CommandQueue, syncCmd, gitVars, workerVars>>

\* FGitSourceControlProvider::CheckGitAvailability after the remote was edited in
\* the settings: the provider's RemoteName changes
CheckGitAvailability ==
    /\ ~crashed
    /\ \E remote \in Remotes \ {RemoteName} : RemoteName' = remote
    /\ UNCHANGED <<ledgerVars, BranchName, UseLocking, GThreadPool, providerVars, gitVars,
                   workerVars>>

\* FGitSourceControlCommand::Abandon, called by the thread pool on a command it will
\* not run: bExecuteProcessed is set, Execute has not run
Abandon(c) ==
    /\ ~crashed
    /\ Commands[c].used /\ Commands[c].bQueuedWork /\ ~Commands[c].bExecuteProcessed
    /\ Commands' = [Commands EXCEPT ![c].bExecuteProcessed = TRUE, ![c].bAbandoned = TRUE]
    /\ UNCHANGED <<ledgerVars, settingVars, CommandQueue, StateCache, syncCmd, gitVars,
                   workerVars>>

\* FGitSourceControlProvider::CancelOperation: an empty body
CancelOperation ==
    /\ ~crashed
    /\ CommandQueue # <<>>
    /\ UNCHANGED vars

ProviderNext ==
    \/ ExecuteAsynchronous
    \/ ExecuteSynchronousCommand_Issue
    \/ ExecuteSynchronousCommand_Wait
    \/ ExecuteSynchronousCommand_Return
    \/ Tick
    \/ \E c \in CommandIds : DoThreadedWork(c)
    \/ \E c \in CommandIds : Abandon(c)
    \/ CancelOperation
    \/ CheckGitAvailability

SpecProvider == InitProvider /\ [][ProviderNext]_vars

\* The thread pool sooner or later takes each command it was given: it runs it or
\* abandons it
SpecProviderFair ==
    SpecProvider /\ \A c \in CommandIds : WF_vars(DoThreadedWork(c) \/ Abandon(c))

\* The thread pool takes each command it was given, and the thread that called
\* ExecuteSynchronousCommand keeps running its wait loop and what follows it
SpecSynchronousFair ==
    /\ SpecProvider
    /\ \A c \in CommandIds : WF_vars(DoThreadedWork(c) \/ Abandon(c))
    /\ WF_vars(ExecuteSynchronousCommand_Wait)
    /\ WF_vars(ExecuteSynchronousCommand_Return)

SpecLedger == InitLedger /\ [][LedgerNext]_vars

(***************************************************************************)
(* FGitCheckInWorker::Execute, one backend command at a time.  A command   *)
(* whose result Execute tests can fail; the commands of Cleanup act on     *)
(* refs the worker made itself and do what git documents.                  *)
(***************************************************************************)
\* Cached statuses of the files offered to a Check-In
CheckInCached ==
    {FileStatus("Modified", FALSE, "", FALSE), FileStatus("CheckedOut", FALSE, "me", FALSE),
     FileStatus("Deleted", FALSE, "", FALSE), FileStatus("Unchanged", FALSE, "", FALSE),
     FileStatus("ForcedWriteable", FALSE, "other", TRUE),
     FileStatus("Conflicted", FALSE, "", FALSE), FileStatus("Outdated", TRUE, "", FALSE)}

\* Local branch and remote branch before a Check-In: level, ahead, diverged, behind
Repos == {<<"c1", "c1">>, <<"c1", "c0">>, <<"c1", "r1">>, <<"c0", "r1">>}

\* The status file before a Check-In: none, or every file checked out and unpinned
InitialDisks ==
    {NoFile,
     FileWith(MapAdd(EmptyMap, ProviderKey("origin", "master"),
                     [p \in Paths |->
                         ToJSon([State |-> "CheckedOut", CheckedOutRevision |-> NoPin])]))}

\* FGitSourceControlProvider::GetState(Files, ..., Use): every miss caches a placeholder
GetStates(cache, Files) ==
    [q \in (DOMAIN cache) \cup Files |-> IF q \in DOMAIN cache THEN cache[q] ELSE UnknownState]

\* Execute's loop over LocalStates, were it to pin the files and leave their state
RECURSIVE MarkCheckedInKeepsState(_, _, _, _)
MarkCheckedInKeepsState(sf, Files, NewCommitSha, Key) ==
    IF Files = {} THEN sf
    ELSE LET File == CHOOSE f \in Files : TRUE
             NewFileState == [GetState(sf, File) EXCEPT !.CheckedOutRevision = NewCommitSha]
         IN  MarkCheckedInKeepsState(SetState(sf, File, NewFileState, Key, FALSE, TRUE).sf,
                                     Files \ {File}, NewCommitSha, Key)

\* Execute's loop over LocalStates after the push: every file is marked Unchanged and
\* pinned at the new commit, without saving
RECURSIVE MarkCheckedIn(_, _, _, _)
MarkCheckedIn(sf, Files, NewCommitSha, Key) ==
    IF Files = {} THEN sf
    ELSE LET File == CHOOSE f \in Files : TRUE
             NewFileState == [GetState(sf, File) EXCEPT !.CheckedOutRevision = NewCommitSha,
                                                        !.State = "Unchanged"]
         IN  MarkCheckedIn(SetState(sf, File, NewFileState, Key, FALSE, TRUE).sf,
                           Files \ {File}, NewCommitSha, Key)

\* FGitCheckInWorker::Cleanup on g = [HEAD, Index, Tag, ok]: reset; with bShouldReset,
\* reset --soft GITCENTRAL_HEAD and reset; then tag -d GITCENTRAL_HEAD
CheckInCleanup(g, bShouldReset) ==
    LET bReset == bShouldReset \/ ~g.ok
        bSoft == bShouldReset /\ g.Tag # NoRef
    IN  [HEAD |-> IF bSoft THEN g.Tag ELSE g.HEAD,
         Index |-> IF bReset THEN "Valid" ELSE g.Index,
         Tag |-> NoRef,
         ok |-> g.ok /\ (bShouldReset => g.Tag # NoRef)]

\* Execute returns
Return(c, label, ok) ==
    [c EXCEPT !.pc = "returned", !.exit = label, !.bCommandSuccessful = ok]

InitCheckIn ==
    /\ disk \in InitialDisks
    /\ StatusFile = LoadStatusFile(NewStatusFile, disk, ProviderKey("origin", "master"))
    /\ crashed = FALSE
    /\ last = NoCall
    /\ snap = NoSnapshot
    /\ RemoteName = "origin"
    /\ BranchName = "master"
    /\ UseLocking \in BOOLEAN
    /\ GThreadPool = TRUE
    /\ CommandQueue = <<>>
    /\ Commands = [c \in CommandIds |-> NoCommand]
    /\ StateCache \in [Paths -> CheckInCached]
    /\ syncCmd = 0
    /\ \E r \in Repos : HEAD = r[1] /\ RemoteHead = r[2]
    /\ Tag = NoRef
    /\ Index \in {"Valid", "Invalid"}
    /\ LocalChanges = {p \in Paths : IsModified(StateCache[p])}
    /\ Stash = <<>>
    /\ Rebase = NoRebase
    /\ \A p \in Paths : StateCache[p].bOutdated => GetMergeBase(HEAD, RemoteHead) # RemoteHead
    /\ \E files \in (SUBSET Paths) \ {{}}, ahead \in SUBSET Paths :
          /\ ahead # {} => GetMergeBase(HEAD, RemoteHead) # HEAD
          /\ \A p \in ahead :
                StateCache[p].WorkingCopyState \in
                    {"Modified", "Deleted", "ForcedWriteable", "Conflicted"}
          /\ ci = [NoCheckIn EXCEPT !.pc = "filter", !.Files = files, !.Requested = files,
                                    !.bUseLocking = UseLocking, !.start = HEAD,
                                    !.startLedger = StatusFile.SavedStates,
                                    !.startCache = StateCache, !.Ahead = ahead]
    /\ sy = NoSync
    /\ us = NoUpdate

CheckInAt(l) == ~crashed /\ ci.pc = l

\* Files that cannot be checked in are dropped; no file left: fail
CheckIn_Filter ==
    /\ CheckInAt("filter")
    /\ StateCache' = GetStates(StateCache, ci.Files)
    /\ LET kept == {f \in ci.Files : CanCheckIn(StateCache'[f])}
       IN  ci' = IF kept = {} THEN Return(ci, "nofiles", FALSE)
                 ELSE [ci EXCEPT !.pc = "index", !.Files = kept]
    /\ UNCHANGED <<ledgerVars, settingVars, CommandQueue, Commands, syncCmd, gitVars, sy, us>>

\* RunCheckIndexValid
CheckIn_CheckIndex ==
    /\ CheckInAt("index")
    /\ ci' = IF Index # "Valid" THEN Return(ci, "index", FALSE) ELSE [ci EXCEPT !.pc = "fetch"]
    /\ UNCHANGED <<ledgerVars, settingVars, providerVars, gitVars, sy, us>>

\* RunFetch
CheckIn_Fetch ==
    /\ CheckInAt("fetch")
    /\ \E ok \in BOOLEAN :
          ci' = IF ok THEN [ci EXCEPT !.pc = "tag", !.bCommandSuccessful = TRUE]
                ELSE Return(ci, "fetch", FALSE)
    /\ UNCHANGED <<ledgerVars, settingVars, providerVars, gitVars, sy, us>>

\* tag -f GITCENTRAL_HEAD, then the test whether the branch is at or ahead of the remote
CheckIn_Tag ==
    /\ CheckInAt("tag")
    /\ \E ok \in BOOLEAN :
          LET bUpToDate == GetMergeBase(HEAD, RemoteHead) = RemoteHead
          IN  /\ Tag' = IF ok THEN HEAD ELSE Tag
              /\ ci' = [ci EXCEPT !.bCommandSuccessful = @ /\ ok, !.tagged = ok,
                                  !.bUpToDate = bUpToDate, !.ran = @ \cup {"tag"},
                                  !.pc = IF bUpToDate THEN "status" ELSE "softreset"]
    /\ UNCHANGED <<ledgerVars, settingVars, providerVars, HEAD, RemoteHead, Index,
                   LocalChanges, Stash, Rebase, sy, us>>

\* reset --soft <remote branch>, reset, RunCheckIndexValid
CheckIn_SoftReset ==
    /\ CheckInAt("softreset")
    /\ \E softOk \in BOOLEAN, resetOk \in BOOLEAN :
          LET staged == IF softOk THEN "Invalid" ELSE Index
              idx == IF resetOk THEN "Valid" ELSE staged
              ok == ci.bCommandSuccessful /\ softOk /\ resetOk /\ idx = "Valid"
          IN  /\ HEAD' = IF softOk THEN RemoteHead ELSE HEAD
              /\ Index' = idx
              /\ ci' = [ci EXCEPT !.softReset = softOk, !.bCommandSuccessful = ok,
                                  !.ran = @ \cup {"reset"},
                                  !.pc = IF ok THEN "status" ELSE "abort"]
    /\ UNCHANGED <<ledgerVars, settingVars, providerVars, RemoteHead, Tag,
                   LocalChanges, Stash, Rebase, sy, us>>

\* The soft reset failed: Cleanup(InCommand, true); return false
CheckIn_Abort ==
    /\ CheckInAt("abort")
    /\ LET g == CheckInCleanup([HEAD |-> HEAD, Index |-> Index, Tag |-> Tag,
                                ok |-> ci.bCommandSuccessful], TRUE)
       IN  /\ HEAD' = g.HEAD /\ Index' = g.Index /\ Tag' = g.Tag
           /\ ci' = Return(ci, "softreset", FALSE)
    /\ UNCHANGED <<ledgerVars, settingVars, providerVars, RemoteHead,
                   LocalChanges, Stash, Rebase, sy, us>>

\* status --porcelain on the files: those with a change are the files to add.  After
\* the soft reset to the remote branch the changes of the local commits are changes
\* of the working tree.
CheckIn_Status ==
    /\ CheckInAt("status")
    /\ \E ok \in BOOLEAN :
          LET changed == LocalChanges \cup (IF ci.softReset THEN ci.Ahead ELSE {})
          IN  ci' = [ci EXCEPT !.bCommandSuccessful = @ /\ ok,
                               !.FilesToAdd = IF ok THEN ci.Files \cap changed ELSE {},
                               !.pc = "add"]
    /\ UNCHANGED <<ledgerVars, settingVars, providerVars, gitVars, sy, us>>

\* add
CheckIn_Add ==
    /\ CheckInAt("add")
    /\ IF ci.bCommandSuccessful /\ ci.FilesToAdd # {}
       THEN \E ok \in BOOLEAN :
               /\ Index' = IF ok THEN "Invalid" ELSE Index
               /\ ci' = [ci EXCEPT !.bCommandSuccessful = ok, !.pc = "commit",
                                   !.ran = @ \cup {"add"},
                                   !.Staged = IF ok THEN ci.FilesToAdd ELSE @]
       ELSE /\ ci' = [ci EXCEPT !.pc = "commit"]
            /\ UNCHANGED Index
    /\ UNCHANGED <<ledgerVars, settingVars, providerVars, HEAD, RemoteHead, Tag,
                   LocalChanges, Stash, Rebase, sy, us>>

\* commit
CheckIn_Commit ==
    /\ CheckInAt("commit")
    /\ IF ci.bCommandSuccessful /\ ci.FilesToAdd # {}
       THEN \E ok \in BOOLEAN :
               /\ HEAD' = IF ok THEN CommitOn(HEAD) ELSE HEAD
               /\ Index' = IF ok THEN "Valid" ELSE Index
               /\ LocalChanges' = IF ok THEN LocalChanges \ ci.FilesToAdd ELSE LocalChanges
               /\ ci' = [ci EXCEPT !.bCommandSuccessful = ok, !.committed = ok, !.pc = "push",
                                   !.ran = @ \cup {"commit"},
                                   !.Committed = IF ok THEN ci.Staged ELSE @]
       ELSE /\ ci' = [ci EXCEPT !.pc = "push"]
            /\ UNCHANGED <<HEAD, Index, LocalChanges>>
    /\ UNCHANGED <<ledgerVars, settingVars, providerVars, RemoteHead, Tag, Stash, Rebase, sy, us>>

\* push: the commits the branch is ahead of the remote branch by are sent, the one
\* just made and, when the branch was not reset to the remote branch, those it had
CheckIn_Push ==
    /\ CheckInAt("push")
    /\ IF ci.bCommandSuccessful
       THEN \E ok \in BOOLEAN :
               /\ RemoteHead' = IF ok THEN HEAD ELSE RemoteHead
               /\ ci' = [ci EXCEPT !.bCommandSuccessful = ok, !.pushRan = TRUE,
                                   !.pushFailed = ~ok, !.pc = "ledger",
                                   !.ran = @ \cup {"push"},
                                   !.Pushed = IF ~ok THEN @
                                              ELSE ci.Committed \cup
                                                   (IF ci.bUpToDate THEN ci.Ahead ELSE {})]
       ELSE /\ ci' = [ci EXCEPT !.pc = "ledger"]
            /\ UNCHANGED RemoteHead
    /\ UNCHANGED <<ledgerVars, settingVars, providerVars, HEAD, Tag, Index,
                   LocalChanges, Stash, Rebase, sy, us>>

\* After a successful push the files are marked in the ledger and the ledger is
\* saved; a failed Save returns false at once
CheckIn_Ledger ==
    /\ CheckInAt("ledger")
    /\ IF ci.bCommandSuccessful
       THEN \E writeOk \in BOOLEAN :
               LET sv == Save(MarkCheckedIn(StatusFile, ci.Files, HEAD, LiveKey),
                              LiveKey, FALSE, writeOk)
               IN  /\ StatusFile' = sv.sf
                   /\ disk' = IF sv.wrote THEN FileWith(sv.sf.LoadedData.sections) ELSE disk
                   /\ crashed' = sv.crash
                   /\ ci' = IF sv.ret THEN [ci EXCEPT !.pc = "unlock"]
                            ELSE Return(ci, "save", FALSE)
       ELSE /\ ci' = [ci EXCEPT !.pc = "unlock"]
            /\ UNCHANGED <<StatusFile, disk, crashed>>
    /\ UNCHANGED <<last, snap, settingVars, providerVars, gitVars, sy, us>>

\* RunUnlockFiles on the files locked by me
CheckIn_Unlock ==
    /\ CheckInAt("unlock")
    /\ IF /\ ci.bCommandSuccessful /\ ci.bUseLocking
          /\ \E f \in ci.Files : CanUnlock(StateCache[f])
       THEN \E ok \in BOOLEAN : ci' = [ci EXCEPT !.bCommandSuccessful = ok, !.pc = "cache"]
       ELSE ci' = [ci EXCEPT !.pc = "cache"]
    /\ UNCHANGED <<ledgerVars, settingVars, providerVars, gitVars, sy, us>>

\* RemoveFileFromCache for every deleted file
CheckIn_RemoveDeleted ==
    /\ CheckInAt("cache")
    /\ StateCache' =
          IF ci.bCommandSuccessful
          THEN [q \in {f \in DOMAIN StateCache : ~(f \in ci.Files /\ IsDeleted(StateCache[f]))}
                   |-> StateCache[q]]
          ELSE StateCache
    /\ ci' = [ci EXCEPT !.pc = "cleanup"]
    /\ UNCHANGED <<ledgerVars, settingVars, CommandQueue, Commands, syncCmd, gitVars, sy, us>>

\* Cleanup(InCommand, !bUpToDate); RunUpdateStatus; return bCommandSuccessful
CheckIn_Finish ==
    /\ CheckInAt("cleanup")
    /\ LET g == CheckInCleanup([HEAD |-> HEAD, Index |-> Index, Tag |-> Tag,
                                ok |-> ci.bCommandSuccessful], ~ci.bUpToDate)
       IN  /\ HEAD' = g.HEAD /\ Index' = g.Index /\ Tag' = g.Tag
           /\ ci' = Return(ci, "end", g.ok)
    /\ UNCHANGED <<ledgerVars, settingVars, providerVars, RemoteHead,
                   LocalChanges, Stash, Rebase, sy, us>>

CheckInNext ==
    \/ CheckIn_Filter
    \/ CheckIn_CheckIndex
    \/ CheckIn_Fetch
    \/ CheckIn_Tag
    \/ CheckIn_SoftReset
    \/ CheckIn_Abort
    \/ CheckIn_Status
    \/ CheckIn_Add
    \/ CheckIn_Commit
    \/ CheckIn_Push
    \/ CheckIn_Ledger
    \/ CheckIn_Unlock
    \/ CheckIn_RemoveDeleted
    \/ CheckIn_Finish

SpecCheckIn == InitCheckIn /\ [][CheckInNext]_vars

(***************************************************************************)
(* FGitSyncWorker::Execute on the repository root (GetLatest), one backend *)
(* command at a time.  rebase --abort, stash drop and reset, whose results *)
(* GetLatest does not look at, do what git documents.                      *)
(***************************************************************************)
\* Rounds of the conflict loop in one Sync
MaxConflictRounds == 2

\* Syncs issued one after the other
MaxSyncs == 2

\* PathToRepositoryRoot
Root == "root"

\* Cached statuses of the files before a Sync
SyncCached ==
    {FileStatus("Conflicted", FALSE, "", FALSE), FileStatus("Modified", FALSE, "", FALSE),
     FileStatus("Unchanged", FALSE, "", FALSE), FileStatus("Outdated", TRUE, "", FALSE)}

\* The conflict loop's ledger write for the files in conflict whose cached state is
\* Conflicted: Conflicted, pinned at the remote head, without saving
RECURSIVE MarkConflicted(_, _, _, _, _)
MarkConflicted(sf, cache, Files, RemoteSha, Key) ==
    IF Files = {} THEN sf
    ELSE LET File == CHOOSE f \in Files : TRUE
             FileState == [GetState(sf, File) EXCEPT !.State = "Conflicted",
                                                     !.CheckedOutRevision = RemoteSha]
             next == IF IsConflicted(cache[File])
                     THEN SetState(sf, File, FileState, Key, FALSE, TRUE).sf
                     ELSE sf
         IN  MarkConflicted(next, cache, Files \ {File}, RemoteSha, Key)

\* GetLatest's loop, were it to leave the entries in conflict as they are
RECURSIVE ResetPinsKeepsConflicted(_, _, _)
ResetPinsKeepsConflicted(sf, Files, Key) ==
    IF Files = {} THEN sf
    ELSE LET File == CHOOSE f \in Files : TRUE
             old == sf.SavedStates[File]
             FileState == [State |-> IF old.State = "Deleted" THEN "Unknown" ELSE old.State,
                           CheckedOutRevision |-> NoPin]
             next == IF old.State = "Conflicted" THEN sf
                     ELSE SetState(sf, File, FileState, Key, FALSE, TRUE).sf
         IN  ResetPinsKeepsConflicted(next, Files \ {File}, Key)

\* GetLatest's loop over GetAllStates once the branch is up to date: every entry is
\* unpinned, and a Deleted entry becomes Unknown, without saving
RECURSIVE ResetPins(_, _, _)
ResetPins(sf, Files, Key) ==
    IF Files = {} THEN sf
    ELSE LET File == CHOOSE f \in Files : TRUE
             old == sf.SavedStates[File]
             FileState == [State |-> IF old.State = "Deleted" THEN "Unknown" ELSE old.State,
                           CheckedOutRevision |-> NoPin]
         IN  ResetPins(SetState(sf, File, FileState, Key, FALSE, TRUE).sf,
                       Files \ {File}, Key)

\* FGitSyncWorker::Cleanup
SyncCleanup(sf) == RestoreCachedStates(sf)

\* The status file before a Sync: as before a Check-In, or with the entries that
\* RunSyncFile leaves: a file it found removed, a file it brought to a commit
SyncDisks ==
    InitialDisks \cup
    {FileWith(MapAdd(EmptyMap, ProviderKey("origin", "master"),
                     MapAdd(MapAdd(EmptyMap, "a",
                                   ToJSon([State |-> "Deleted", CheckedOutRevision |-> "c0"])),
                            "b", ToJSon([State |-> "Unchanged", CheckedOutRevision |-> "c0"]))))}

InitSync ==
    /\ disk \in SyncDisks
    /\ StatusFile = LoadStatusFile(NewStatusFile, disk, ProviderKey("origin", "master"))
    /\ crashed = FALSE
    /\ last = NoCall
    /\ snap = NoSnapshot
    /\ RemoteName = "origin"
    /\ BranchName = "master"
    /\ UseLocking = FALSE
    /\ GThreadPool = TRUE
    /\ CommandQueue = <<>>
    /\ Commands = [c \in CommandIds |-> NoCommand]
    /\ StateCache \in [Paths -> SyncCached]
    /\ syncCmd = 0
    /\ \E r \in Repos : HEAD = r[1] /\ RemoteHead = r[2]
    /\ Tag = NoRef
    /\ Index \in {"Valid", "Invalid"}
    /\ LocalChanges = {p \in Paths : IsModified(StateCache[p])}
    /\ Stash = <<>>
    /\ Rebase = NoRebase
    /\ ci = NoCheckIn
    /\ us = NoUpdate
    /\ \E Files \in {{Root}, {"a"}, Paths} :
          sy = [NoSync EXCEPT !.pc = "fetch", !.Files = Files, !.start = HEAD,
                              !.startLedger = StatusFile.SavedStates,
                              !.startChanges = LocalChanges, !.startIndex = Index]

SyncAt(l) == ~crashed /\ sy.pc = l

\* Execute: RunFetch; its result is only remembered.  The repository root as the only
\* file is GetLatest, anything else is synced file by file.
Sync_Fetch ==
    /\ SyncAt("fetch")
    /\ \E ok \in BOOLEAN :
          sy' = [sy EXCEPT !.bCommandSuccessful = ok,
                           !.pc = IF sy.Files = {Root} THEN "check" ELSE "files"]
    /\ UNCHANGED <<ledgerVars, settingVars, providerVars, gitVars, ci, us>>

\* GetLatest: the index must be valid; nothing to do when the merge base is the
\* remote head
Sync_Check ==
    /\ SyncAt("check")
    /\ sy' = IF Index # "Valid" THEN Return(sy, "index", FALSE)
             ELSE IF GetMergeBase(HEAD, RemoteHead) = RemoteHead
             THEN Return(sy, "uptodate", TRUE)
             ELSE [sy EXCEPT !.pc = "snapshot"]
    /\ UNCHANGED <<ledgerVars, settingVars, providerVars, gitVars, ci, us>>

\* CacheStates, then status --porcelain to see whether there is anything to stash
Sync_CacheStates ==
    /\ SyncAt("snapshot")
    /\ StatusFile' = CacheStates(StatusFile)
    /\ \E ok \in BOOLEAN :
          sy' = [sy EXCEPT !.bCommandSuccessful = @ /\ ok,
                           !.bStash = ok /\ LocalChanges # {},
                           !.snapshot = StatusFile.SavedStates,
                           !.pc = "stash"]
    /\ UNCHANGED <<disk, crashed, last, snap, settingVars, providerVars, gitVars, ci, us>>

\* add . and stash save -u; when either failed: reset, ClearCache, return false
Sync_Stash ==
    /\ SyncAt("stash")
    /\ IF sy.bCommandSuccessful /\ sy.bStash
       THEN \E addOk \in BOOLEAN, stashOk \in BOOLEAN :
               /\ Stash' = IF stashOk THEN <<LocalChanges>> \o Stash ELSE Stash
               /\ LocalChanges' = IF stashOk THEN {} ELSE LocalChanges
               /\ Index' = "Valid"
               /\ StatusFile' = IF addOk /\ stashOk THEN StatusFile ELSE ClearCache(StatusFile)
               /\ sy' = IF addOk /\ stashOk THEN [sy EXCEPT !.pc = "diff"]
                        ELSE Return(sy, "stash", FALSE)
       ELSE /\ sy' = [sy EXCEPT !.pc = "diff"]
            /\ UNCHANGED <<StatusFile, Stash, LocalChanges, Index>>
    /\ UNCHANGED <<disk, crashed, last, snap, settingVars, providerVars, HEAD, RemoteHead,
                   Tag, Rebase, ci, us>>

\* diff --name-status <merge base> <remote branch>; on failure Cleanup, return false
Sync_Diff ==
    /\ SyncAt("diff")
    /\ \E ok \in BOOLEAN :
          IF sy.bCommandSuccessful /\ ok
          THEN /\ sy' = [sy EXCEPT !.pc = "pull"]
               /\ UNCHANGED StatusFile
          ELSE /\ StatusFile' = SyncCleanup(StatusFile)
               /\ sy' = Return(sy, "diff", FALSE)
    /\ UNCHANGED <<disk, crashed, last, snap, settingVars, providerVars, gitVars, ci, us>>

\* What a rebase command can report: it ran to the end, it stopped on a conflict, it
\* failed before it touched anything, or it stopped half-way for another reason
RebaseOutcomes == {"done", "conflict", "refused", "stopped"}

\* pull --rebase <remote> <branch>.  Only a branch with commits of its own is
\* replayed, so only such a branch can stop half-way.
Sync_Pull ==
    /\ SyncAt("pull")
    /\ \E outcome \in RebaseOutcomes, f \in Paths :
          /\ outcome \in {"conflict", "stopped"} => HEAD \notin Ancestors(RemoteHead)
          /\ HEAD' = IF outcome = "done" THEN RebasedOnto(HEAD, RemoteHead)
                     ELSE IF outcome = "refused" THEN HEAD
                     ELSE RemoteHead
          /\ Rebase' = IF outcome \in {"conflict", "stopped"}
                       THEN [active |-> TRUE, orig |-> HEAD] ELSE Rebase
          /\ sy' = [sy EXCEPT !.bCommandSuccessful = @ /\ outcome = "done",
                              !.Conflicts = IF outcome = "conflict" THEN {f} ELSE {},
                              !.rebaseFailed = outcome \in {"refused", "stopped"},
                              !.pc = IF outcome = "conflict" THEN "resolve" ELSE "rebased"]
    /\ UNCHANGED <<ledgerVars, settingVars, providerVars, RemoteHead, Tag, Index,
                   LocalChanges, Stash, ci, us>>

\* One round of the conflict loop: checkout --theirs on each file in conflict, the
\* ledger write for it, add . and rebase --continue
Sync_Resolve ==
    /\ SyncAt("resolve")
    /\ \E checkoutOk \in BOOLEAN, addOk \in BOOLEAN,
          outcome \in RebaseOutcomes \ {"refused"}, f \in Paths :
          /\ outcome = "conflict" => sy.rounds + 1 < MaxConflictRounds
          /\ StateCache' = GetStates(StateCache, sy.Conflicts)
          /\ StatusFile' = MarkConflicted(StatusFile, StateCache', sy.Conflicts,
                                          RemoteHead, LiveKey)
          /\ HEAD' = IF outcome = "done" THEN RebasedOnto(Rebase.orig, RemoteHead) ELSE HEAD
          /\ Rebase' = IF outcome = "done" THEN NoRebase ELSE Rebase
          /\ sy' = [sy EXCEPT !.bCommandSuccessful = checkoutOk /\ addOk /\ outcome = "done",
                              !.Conflicts = IF outcome = "conflict" THEN {f} ELSE {},
                              !.rounds = @ + 1,
                              !.ledgerWritten = @ \/ StatusFile' # StatusFile,
                              !.rebaseFailed = outcome = "stopped",
                              !.pc = IF outcome = "conflict" THEN "resolve" ELSE "rebased"]
    /\ UNCHANGED <<disk, crashed, last, snap, settingVars, CommandQueue, Commands, syncCmd,
                   RemoteHead, Tag, Index, LocalChanges, Stash, ci, us>>

\* After the rebase.  On failure: rebase --abort, stash drop when something was
\* stashed, Cleanup, return false
Sync_Rebased ==
    /\ SyncAt("rebased")
    /\ IF sy.bCommandSuccessful
       THEN /\ sy' = [sy EXCEPT !.pc = "pop"]
            /\ UNCHANGED <<StatusFile, HEAD, Rebase, Stash>>
       ELSE /\ HEAD' = IF Rebase.active THEN Rebase.orig ELSE HEAD
            /\ Rebase' = NoRebase
            /\ Stash' = IF sy.bStash /\ Stash # <<>> THEN Tail(Stash) ELSE Stash
            /\ StatusFile' = SyncCleanup(StatusFile)
            /\ sy' = Return(sy, "rebase", FALSE)
    /\ UNCHANGED <<disk, crashed, last, snap, settingVars, providerVars, RemoteHead, Tag,
                   Index, LocalChanges, ci, us>>

\* stash pop and reset, when something was stashed
Sync_StashPop ==
    /\ SyncAt("pop")
    /\ IF sy.bCommandSuccessful /\ sy.bStash
       THEN \E popOk \in BOOLEAN, resetOk \in BOOLEAN :
               /\ LocalChanges' = IF popOk THEN LocalChanges \cup Head(Stash) ELSE LocalChanges
               /\ Stash' = IF popOk THEN Tail(Stash) ELSE Stash
               /\ Index' = IF resetOk THEN "Valid" ELSE IF popOk THEN "Invalid" ELSE Index
               /\ sy' = [sy EXCEPT !.bCommandSuccessful = popOk /\ resetOk,
                                   !.popFailed = ~popOk, !.resetFailed = ~resetOk,
                                   !.pc = "pins"]
       ELSE /\ sy' = [sy EXCEPT !.pc = "pins"]
            /\ UNCHANGED <<LocalChanges, Stash, Index>>
    /\ UNCHANGED <<ledgerVars, settingVars, providerVars, HEAD, RemoteHead, Tag, Rebase, ci, us>>

\* Every ledger entry is unpinned and the ledger saved; a failed Save runs Cleanup and
\* returns false.  Otherwise RunUpdateStatus, whose result (ok) is assigned to
\* bCommandSuccessful, and return true, which DoWork assigns to bCommandSuccessful.
Sync_Pins ==
    /\ SyncAt("pins")
    /\ \E writeOk \in BOOLEAN, ok \in BOOLEAN :
          LET sv == Save(ResetPins(StatusFile, DOMAIN StatusFile.SavedStates, LiveKey),
                         LiveKey, FALSE, writeOk)
          IN  /\ StatusFile' = IF sv.ret THEN sv.sf ELSE SyncCleanup(sv.sf)
              /\ disk' = IF sv.wrote THEN FileWith(sv.sf.LoadedData.sections) ELSE disk
              /\ crashed' = sv.crash
              /\ sy' = IF sv.ret THEN [Return(sy, "end", TRUE) EXCEPT !.refreshed = ok]
                       ELSE Return(sy, "save", FALSE)
    /\ UNCHANGED <<last, snap, settingVars, providerVars, gitVars, ci, us>>

\* Execute on files: the files of the request whose cached state is not current are
\* the files to sync; with none of them the command fails
Sync_Files ==
    /\ SyncAt("files")
    /\ LET FilesToSync == {f \in sy.Files : ~IsCurrent(GetStateInternal(StateCache, f)[f])}
       IN  /\ StateCache' = GetStates(StateCache, sy.Files)
           /\ sy' = IF FilesToSync = {} THEN Return(sy, "nofiles", FALSE)
                    ELSE [sy EXCEPT !.FilesToSync = FilesToSync, !.ToDo = FilesToSync,
                                    !.pc = "syncfile"]
    /\ UNCHANGED <<ledgerVars, settingVars, CommandQueue, Commands, syncCmd, gitVars, ci, us>>

\* What RunSyncFile's checkout and reset can come to: both ran, one of them failed, or
\* the file is not in the revision and was removed from the disk
SyncFileOutcomes == {"synced", "checkout", "reset", "removed"}

\* RunSyncFile(File, RemoteSha) for one of the files to sync: checkout <sha> -f -- File
\* and reset File; when these succeed the ledger entry is pinned at the remote head
\* (Deleted, when the file was removed) and the ledger saved
Sync_SyncFile ==
    /\ SyncAt("syncfile")
    /\ sy.ToDo # {}
    /\ \E File \in sy.ToDo, outcome \in SyncFileOutcomes, writeOk \in BOOLEAN :
          LET bResult == outcome \in {"synced", "removed"}
              State == [GetState(StatusFile, File) EXCEPT
                            !.CheckedOutRevision = RemoteHead,
                            !.State = IF outcome = "removed" THEN "Deleted" ELSE @]
              r == SetState(StatusFile, File, State, LiveKey, TRUE, writeOk)
          IN  /\ LocalChanges' = IF outcome = "checkout" THEN LocalChanges
                                 ELSE LocalChanges \ {File}
              /\ Index' = IF outcome = "reset" THEN "Invalid" ELSE Index
              /\ StatusFile' = IF bResult THEN r.sf ELSE StatusFile
              /\ disk' = IF bResult /\ r.wrote THEN FileWith(r.sf.LoadedData.sections)
                         ELSE disk
              /\ crashed' = (bResult /\ r.crash)
              /\ sy' = [sy EXCEPT !.bCommandSuccessful = @ /\ bResult,
                                  !.ToDo = @ \ {File},
                                  !.Removed = IF outcome = "removed" THEN @ \cup {File} ELSE @,
                                  !.ledgerWritten = @ \/ StatusFile' # StatusFile,
                                  !.saveFailed = @ \/ (bResult /\ ~r.ret),
                                  !.pc = IF sy.ToDo = {File} THEN "refresh" ELSE "syncfile"]
    /\ UNCHANGED <<last, snap, settingVars, providerVars, HEAD, RemoteHead, Tag, Stash,
                   Rebase, ci, us>>

\* What RunUpdateStatus can read for a file right after RunSyncFile ran on it: the
\* index has no unmerged entry, since checkout and reset leave none
SyncedInputs(LocalBranchSha, RemoteBranchSha) ==
    {in \in StatusInputs(LocalBranchSha, RemoteBranchSha, FALSE) :
        in.Status # "Conflicted" /\ in.Diff = NoLine /\ ~in.bHasLastChange}

\* Execute on files, the end: RunUpdateStatus on the files to sync, whose result is not
\* looked at; Execute returns bCommandSuccessful
Sync_UpdateStatus ==
    /\ SyncAt("refresh")
    /\ \E ok \in BOOLEAN, ins \in [sy.FilesToSync -> SyncedInputs(HEAD, RemoteHead)] :
          /\ \A f \in sy.FilesToSync : ins[f].bIsValid = (f \notin sy.Removed)
          /\ sy' = [Return(sy, "files", sy.bCommandSuccessful) EXCEPT
                       !.refreshed = ok,
                       !.States = IF ok
                                  THEN [f \in sy.FilesToSync |->
                                          RunUpdateStatus(ins[f], GetState(StatusFile, f),
                                                          HEAD, RemoteHead)]
                                  ELSE EmptyMap]
    /\ UNCHANGED <<ledgerVars, settingVars, providerVars, gitVars, ci, us>>

\* Tick on the finished Sync: FGitSyncWorker::UpdateStates
Sync_UpdateStates ==
    /\ SyncAt("returned")
    /\ StateCache' = UpdateCachedStates(StateCache, sy.States)
    /\ sy' = [sy EXCEPT !.pc = "applied"]
    /\ UNCHANGED <<ledgerVars, settingVars, CommandQueue, Commands, syncCmd, gitVars, ci, us>>

\* The Sync has succeeded, with its ledger writes saved and the cache refreshed, and
\* is issued again, nothing having changed locally or on the remote
Sync_Again ==
    /\ SyncAt("applied")
    /\ sy.run < MaxSyncs
    /\ sy.bCommandSuccessful /\ ~sy.saveFailed
    /\ sy.exit = "files" => sy.refreshed
    /\ sy' = [NoSync EXCEPT !.pc = "fetch", !.Files = sy.Files, !.run = sy.run + 1,
                            !.start = HEAD, !.startLedger = StatusFile.SavedStates,
                            !.startChanges = LocalChanges, !.startIndex = Index,
                            !.prev = sy.exit]
    /\ UNCHANGED <<ledgerVars, settingVars, providerVars, gitVars, ci, us>>

SyncNext ==
    \/ Sync_Fetch
    \/ Sync_Files
    \/ Sync_SyncFile
    \/ Sync_UpdateStatus
    \/ Sync_UpdateStates
    \/ Sync_Again
    \/ Sync_Check
    \/ Sync_CacheStates
    \/ Sync_Stash
    \/ Sync_Diff
    \/ Sync_Pull
    \/ Sync_Resolve
    \/ Sync_Rebased
    \/ Sync_StashPop
    \/ Sync_Pins

SpecSync == InitSync /\ [][SyncNext]_vars

(***************************************************************************)
(* RunUpdateStatus on one file, fold by fold.  After the folds of the      *)
(* local diff and of the status, each file gets its ledger entry and a     *)
(* look at the disk; then the remote states and the locks are folded in.   *)
(***************************************************************************)
\* Ledger entries the workers write: Check-In and RunSyncFile pin an Unchanged file
\* at a commit, Check-Out leaves a CheckedOut file, ResolveConflict pins CheckedOut at
\* the remote head, the conflict loop of GetLatest pins Conflicted at the remote head
StatusEntries ==
    {[State |-> "Unchanged", CheckedOutRevision |-> "c0"],
     [State |-> "Unchanged", CheckedOutRevision |-> "r1"],
     [State |-> "CheckedOut", CheckedOutRevision |-> NoPin],
     [State |-> "CheckedOut", CheckedOutRevision |-> "r1"],
     [State |-> "Conflicted", CheckedOutRevision |-> "r1"]}

\* The status file before a status update: none, or an entry for the file
StatusDisks ==
    {NoFile} \cup
    {FileWith(MapAdd(EmptyMap, ProviderKey("origin", "master"),
                     MapAdd(EmptyMap, "a", ToJSon(s)))) : s \in StatusEntries}

InitStatus ==
    /\ disk \in StatusDisks
    /\ StatusFile = LoadStatusFile(NewStatusFile, disk, ProviderKey("origin", "master"))
    /\ crashed = FALSE
    /\ last = NoCall
    /\ snap = NoSnapshot
    /\ RemoteName = "origin"
    /\ BranchName = "master"
    /\ UseLocking \in BOOLEAN
    /\ GThreadPool = TRUE
    /\ CommandQueue = <<>>
    /\ Commands = [c \in CommandIds |-> NoCommand]
    /\ StateCache = EmptyMap
    /\ syncCmd = 0
    /\ \E r \in Repos : HEAD = r[1] /\ RemoteHead = r[2]
    /\ Tag = NoRef
    /\ Index = "Valid"
    /\ LocalChanges = {}
    /\ Stash = <<>>
    /\ Rebase = NoRebase
    /\ ci = NoCheckIn
    /\ sy = NoSync
    /\ \E in \in StatusInputs(HEAD, RemoteHead, UseLocking) :
          us = [NoUpdate EXCEPT !.pc = "local", !.in = in, !.LocalBranchSha = HEAD,
                                !.RemoteBranchSha = RemoteHead]

UpdateStatusAt(l) == ~crashed /\ us.pc = l

\* The state parsed from the local diff, and the fold of the state parsed from status
UpdateStatus_Local ==
    /\ UpdateStatusAt("local")
    /\ us' = [us EXCEPT !.pc = "saved",
                        !.st = IF us.in.Diff = NoLine THEN Parsed(us.in.Status)
                               ELSE CombineWithLocalState(Parsed(us.in.Diff),
                                                          Parsed(us.in.Status))]
    /\ UNCHANGED <<ledgerVars, settingVars, providerVars, gitVars, ci, sy>>

\* The fold of the file's ledger entry
UpdateStatus_Saved ==
    /\ UpdateStatusAt("saved")
    /\ us' = [us EXCEPT !.pc = "disk",
                        !.st = CombineWithSavedState(us.st, GetState(StatusFile, us.File),
                                                     us.LocalBranchSha)]
    /\ UNCHANGED <<ledgerVars, settingVars, providerVars, gitVars, ci, sy>>

\* The look at the disk
UpdateStatus_Disk ==
    /\ UpdateStatusAt("disk")
    /\ us' = [us EXCEPT !.pc = "remote", !.st = CheckOnDisk(us.st, us.in.bIsValid)]
    /\ UNCHANGED <<ledgerVars, settingVars, providerVars, gitVars, ci, sy>>

\* The fold of the file's remote state, when the remote diff has a line for it
UpdateStatus_Remote ==
    /\ UpdateStatusAt("remote")
    /\ us' = IF us.in.Remote = NoLine THEN [us EXCEPT !.pc = "locks"]
             ELSE [us EXCEPT !.pc = "resolve", !.OldState = us.st.WorkingCopyState,
                             !.st = CombineWithRemoteState(us.st, Parsed(us.in.Remote))]
    /\ UNCHANGED <<ledgerVars, settingVars, providerVars, gitVars, ci, sy>>

\* ResolveConflict, for a file that is not current and is pinned at the remote head or
\* at a revision that has the remote branch's last change of it
UpdateStatus_Resolve ==
    /\ UpdateStatusAt("resolve")
    /\ us' = [us EXCEPT !.pc = "locks",
                        !.st = IF ~IsCurrent(us.st) /\ us.st.CheckedOutRevision # NoPin
                                  /\ (us.st.CheckedOutRevision = us.RemoteBranchSha
                                      \/ us.in.bHasLastChange)
                               THEN ResolveConflict(us.st, us.OldState, us.in.bIsValid)
                               ELSE us.st]
    /\ UNCHANGED <<ledgerVars, settingVars, providerVars, gitVars, ci, sy>>

\* The fold of the file's lock, when lfs locks lists one
UpdateStatus_Locks ==
    /\ UpdateStatusAt("locks")
    /\ us' = [us EXCEPT !.pc = "done",
                        !.st = IF us.in.Lock = NoLock THEN us.st
                               ELSE CombineWithLockedState(us.st, us.in.Lock)]
    /\ UNCHANGED <<ledgerVars, settingVars, providerVars, gitVars, ci, sy>>

StatusNext ==
    \/ UpdateStatus_Local
    \/ UpdateStatus_Saved
    \/ UpdateStatus_Disk
    \/ UpdateStatus_Remote
    \/ UpdateStatus_Resolve
    \/ UpdateStatus_Locks

SpecStatus == InitStatus /\ [][StatusNext]_vars

(***************************************************************************)
(* FGitConnectWorker: Execute resets the index, looks for the branch on    *)
(* the remote, fetches and runs CleanupStatusFile on the ledger in         *)
(* memory; UpdateStates then loads the status file.                        *)
(***************************************************************************)
\* Ledger entries in the status file at a Connect
ConnectEntries ==
    {[State |-> "Unchanged", CheckedOutRevision |-> "c0"],
     [State |-> "Unchanged", CheckedOutRevision |-> "r1"],
     [State |-> "CheckedOut", CheckedOutRevision |-> NoPin],
     [State |-> "CheckedOut", CheckedOutRevision |-> "c0"],
     [State |-> "Deleted", CheckedOutRevision |-> "c0"]}

\* The status file at a Connect: any choice of an entry, or none, for every file.  The
\* ledger in memory is what was loaded from it, with writes not saved yet or without.
ConnectDisks ==
    {FileWith(MapAdd(EmptyMap, ProviderKey("origin", "master"),
                     [p \in S |-> ToJSon(e[p])])) :
        S \in SUBSET Paths, e \in [Paths -> ConnectEntries]}

\* What CleanupStatusFile gets from git and from the disk: whether the merge base was
\* found (bMergeBase), whether the diff to the remote branch ran (bDiff) and its
\* line for each file (Remote: the same line for every file), the files on disk
\* (Exists: all or none), whether merge-base --is-ancestor ran (bAncestor), and the
\* outcome of each write of the status file: the one ClearState makes for a file
\* (Writes) and the last one (bSave)
CleanupInputs(MergeBase, RemoteBranchSha) ==
    {[bMergeBase |-> FALSE, bDiff |-> TRUE, Remote |-> [p \in Paths |-> NoLine],
      Exists |-> Paths, bAncestor |-> TRUE, Writes |-> [p \in Paths |-> TRUE],
      bSave |-> TRUE]} \cup
    [bMergeBase : {TRUE},
     bDiff : IF RemoteBranchSha # MergeBase THEN BOOLEAN ELSE {TRUE},
     Remote : IF RemoteBranchSha # MergeBase
              THEN {[p \in Paths |-> l] : l \in {NoLine, "Modified", "Deleted"}}
              ELSE {[p \in Paths |-> NoLine]},
     Exists : {{}, Paths}, bAncestor : BOOLEAN, Writes : [Paths -> BOOLEAN],
     bSave : BOOLEAN]

\* The entries to clear, were a pin only compared with the merge base
ToClearAtMergeBase(SavedStates, MergeBase, in) ==
    {p \in DOMAIN SavedStates :
        LET s == SavedStates[p]
        IN  IF s.State = "Deleted" /\ p \notin in.Exists
            THEN in.Remote[p] \in {NoLine, "Deleted"}
            ELSE IF ToChar(s.State) = "0" /\ s.CheckedOutRevision # NoPin
            THEN s.CheckedOutRevision = MergeBase
            ELSE FALSE}

\* The entries CleanupStatusFile clears: a Deleted entry of a file that is not on disk
\* when the remote branch has no change of the file or has deleted it; an entry
\* saved as unchanged whose pin is the merge base or an ancestor of it
ToClear(SavedStates, MergeBase, in) ==
    {p \in DOMAIN SavedStates :
        LET s == SavedStates[p]
        IN  IF s.State = "Deleted" /\ p \notin in.Exists
            THEN in.Remote[p] \in {NoLine, "Deleted"}
            ELSE IF ToChar(s.State) = "0" /\ s.CheckedOutRevision # NoPin
            THEN \/ s.CheckedOutRevision = MergeBase
                 \/ in.bAncestor /\ s.CheckedOutRevision \in Ancestors(MergeBase)
            ELSE FALSE}

\* CleanupStatusFile's calls of ClearState(File, root, true) on r = [sf, disk, crash]
RECURSIVE ClearStates(_, _, _, _)
ClearStates(r, Files, Key, Writes) ==
    IF Files = {} \/ r.crash THEN r
    ELSE LET File == CHOOSE f \in Files : TRUE
             c == ClearState(r.sf, File, Key, TRUE, Writes[File])
         IN  ClearStates([sf |-> c.sf,
                          disk |-> IF c.wrote THEN FileWith(c.sf.LoadedData.sections)
                                   ELSE r.disk,
                          crash |-> c.crash],
                         Files \ {File}, Key, Writes)

\* CleanupStatusFile: the result is the status file and the disk afterwards, whether
\* the process died, Success, and the files whose entry it set out to clear
CleanupStatusFile(sf, d, Key, LocalBranchSha, RemoteBranchSha, in) ==
    LET cached == CacheStates(sf)
        MergeBase == GetMergeBase(LocalBranchSha, RemoteBranchSha)
        bDiffed == RemoteBranchSha # MergeBase => in.bDiff
        cleared == ClearStates([sf |-> cached, disk |-> d, crash |-> FALSE],
                               ToClear(sf.SavedStates, MergeBase, in), Key, in.Writes)
        sv == Save(cleared.sf, Key, FALSE, in.bSave)
    IN  IF DOMAIN sf.SavedStates = {}
        THEN [sf |-> cached, disk |-> d, crash |-> FALSE, Success |-> TRUE, Cleared |-> {}]
        ELSE IF ~in.bMergeBase \/ ~bDiffed
        THEN [sf |-> RestoreCachedStates(cached), disk |-> d, crash |-> FALSE,
              Success |-> FALSE, Cleared |-> {}]
        ELSE IF cleared.crash
        THEN [sf |-> cleared.sf, disk |-> cleared.disk, crash |-> TRUE, Success |-> FALSE,
              Cleared |-> ToClear(sf.SavedStates, MergeBase, in)]
        ELSE [sf |-> IF sv.ret THEN sv.sf ELSE RestoreCachedStates(sv.sf),
              disk |-> IF sv.wrote THEN FileWith(sv.sf.LoadedData.sections)
                       ELSE cleared.disk,
              crash |-> sv.crash, Success |-> sv.ret,
              Cleared |-> ToClear(sf.SavedStates, MergeBase, in)]

InitConnect ==
    /\ disk \in ConnectDisks
    /\ \E bDirty \in BOOLEAN :
          StatusFile = [LoadStatusFile(NewStatusFile, disk, ProviderKey("origin", "master"))
                           EXCEPT !.bDirty = bDirty]
    /\ crashed = FALSE
    /\ last = NoCall
    /\ snap = NoSnapshot
    /\ RemoteName = "origin"
    /\ BranchName = "master"
    /\ UseLocking = FALSE
    /\ GThreadPool = TRUE
    /\ CommandQueue = <<>>
    /\ Commands = [c \in CommandIds |-> NoCommand]
    /\ StateCache = EmptyMap
    /\ syncCmd = 0
    /\ \E r \in Repos : HEAD = r[1] /\ RemoteHead = r[2]
    /\ Tag = NoRef
    /\ Index \in {"Valid", "Invalid"}
    /\ LocalChanges = {}
    /\ Stash = <<>>
    /\ Rebase = NoRebase
    /\ ci = NoCheckIn
    /\ sy = NoSync
    /\ us = NoUpdate

\* Execute: reset and the index check, ls-remote, fetch, CleanupStatusFile.  bReached
\* is whether the remote was found to track the branch, that is whether the fetch
\* and CleanupStatusFile were reached.
Connect_Execute ==
    /\ ~crashed /\ last.op # "CleanupStatusFile" /\ last.op # "Connect"
    /\ \E resetOk \in (IF Index = "Valid" THEN {TRUE} ELSE BOOLEAN), bReached \in BOOLEAN :
          /\ Index' = IF resetOk THEN "Valid" ELSE Index
          /\ IF Index' = "Valid" /\ bReached
             THEN \E in \in CleanupInputs(GetMergeBase(HEAD, RemoteHead), RemoteHead) :
                     LET r == CleanupStatusFile(StatusFile, disk, LiveKey, HEAD,
                                                RemoteHead, in)
                     IN  /\ StatusFile' = r.sf
                         /\ disk' = r.disk
                         /\ crashed' = r.crash
                         /\ last' = [NoCall EXCEPT !.op = "CleanupStatusFile",
                                                   !.ret = r.Success,
                                                   !.bAncestor = in.bAncestor,
                                                   !.Cleared = r.Cleared]
             ELSE /\ last' = [NoCall EXCEPT !.op = "Connect", !.ret = FALSE]
                  /\ UNCHANGED <<StatusFile, disk, crashed>>
    /\ UNCHANGED <<snap, settingVars, providerVars, HEAD, RemoteHead, Tag, LocalChanges, Stash,
                   Rebase, workerVars>>

\* UpdateStates: the provider's cache is cleared and the status file loaded
Connect_UpdateStates ==
    /\ ~crashed /\ last.op \in {"CleanupStatusFile", "Connect"}
    /\ \E legacy \in LegacyFiles, readOk \in BOOLEAN, writeOk \in BOOLEAN :
          LET r == Load(StatusFile, disk, legacy, LiveKey, readOk, writeOk)
          IN  /\ StatusFile' = r.sf
              /\ disk' = IF r.wrote THEN FileWith(r.sf.LoadedData.sections) ELSE disk
              /\ crashed' = r.crash
              /\ last' = [NoCall EXCEPT !.op = "Load", !.ret = r.ret,
                                        !.bLegacy = legacy.exists, !.readOk = readOk]
    /\ StateCache' = EmptyMap
    /\ UNCHANGED <<snap, settingVars, CommandQueue, Commands, syncCmd, gitVars, workerVars>>

ConnectNext ==
    \/ Connect_Execute
    \/ Connect_UpdateStates

SpecConnect == InitConnect /\ [][ConnectNext]_vars

(***************************************************************************)
(* The saved-state machine: the workers that write one file's ledger       *)
(* entry, each followed by the refresh of the file's cached state          *)
(***************************************************************************)
\* CanRevert
CanRevert(st) == IsCheckedOut(st) \/ IsConflicted(st)

\* The documented saved states (GitSourceControlState.h), read off an entry as it is
\* serialised: 0 Unknown/"0", 1 CheckedOut/"0", 2 CheckedOut/rev, 3 and 4 Unknown/rev,
\* 5 Deleted, 6 Conflicted/"0"; 7 is any other entry
SavedStateNumber(e) ==
    LET c == ToChar(e.State)
        pinned == e.CheckedOutRevision # NoPin
    IN  CASE c = "0" /\ ~pinned -> 0
          [] c = "L" /\ ~pinned -> 1
          [] c = "L" /\ pinned -> 2
          [] c = "0" /\ pinned -> 3
          [] c = "D" -> 5
          [] c = "U" /\ ~pinned -> 6
          [] OTHER -> 7

\* Entries of the documented states, as the status file holds them
SavedEntries ==
    {[State |-> "CheckedOut", CheckedOutRevision |-> NoPin],
     [State |-> "CheckedOut", CheckedOutRevision |-> "c0"],
     [State |-> "Unknown", CheckedOutRevision |-> "c0"],
     [State |-> "Deleted", CheckedOutRevision |-> "c0"],
     [State |-> "Conflicted", CheckedOutRevision |-> NoPin]}

\* The number of operations issued in one run of the saved-state machine
MaxOps == 1

\* The files the operations of the saved-state machine are issued on; the other
\* files are written by GetLatest only
SavedFiles == {"a"}

\* Status files of the saved-state machine: each of SavedFiles has no entry (state 0)
\* or one of SavedEntries, each other file has no entry or is checked out at a commit
SavedDisks ==
    {FileWith(MapAdd(EmptyMap, ProviderKey("origin", "master"),
                     [p \in Files |-> ToJSon(m[p])])) :
        Files \in SUBSET Paths,
        m \in {e \in [Paths -> SavedEntries] :
                 \A p \in Paths \ SavedFiles :
                    e[p] = [State |-> "CheckedOut", CheckedOutRevision |-> "c0"]}}

\* What a refresh reads for a file that is on the disk and that no local commit
\* touches
SavedInputs(LocalBranchSha, RemoteBranchSha) ==
    {in \in StatusInputs(LocalBranchSha, RemoteBranchSha, FALSE) :
        in.Diff = NoLine /\ in.bIsValid /\ ~in.bHasLastChange}

\* RunSyncFile(InFile, InRevision, OverrideSavedState) on the ledger: when checkout
\* and reset succeed, or the file is not in the revision and is removed, the entry
\* is pinned at InRevision, takes the override state unless that is Unknown (Deleted
\* for a removed file), and the ledger is saved
RunSyncFile(sf, InFile, InRevision, OverrideSavedState, outcome, Key, writeOk) ==
    LET bResult == outcome \in {"synced", "removed"}
        Override == IF outcome = "removed" THEN "Deleted" ELSE OverrideSavedState
        State == [GetState(sf, InFile) EXCEPT
                      !.CheckedOutRevision = InRevision,
                      !.State = IF Override # "Unknown" THEN Override ELSE @]
        r == SetState(sf, InFile, State, Key, TRUE, writeOk)
    IN  IF bResult
        THEN [sf |-> r.sf, wrote |-> r.wrote, crash |-> r.crash, ret |-> TRUE,
              saved |-> r.ret]
        ELSE [sf |-> sf, wrote |-> FALSE, crash |-> FALSE, ret |-> FALSE, saved |-> TRUE]

\* FGitResolveWorker::Execute on the ledger: a file whose cached state is conflicted
\* is marked CheckedOut and pinned at the remote head, then Save
ResolveLedger(sf, cache, File, RemoteSha, Key, writeOk) ==
    LET State == GetStateInternal(cache, File)[File]
        FileState == GetState(sf, File)
        NewFileState == [FileState EXCEPT !.State = "CheckedOut",
                                          !.CheckedOutRevision = RemoteSha]
        marked == IF IsConflicted(State)
                  THEN SetState(sf, File, NewFileState, Key, FALSE, TRUE).sf
                  ELSE sf
    IN  Save(marked, Key, FALSE, writeOk)

\* The states RunUpdateStatus can give File
Statuses(sf, File, LocalBranchSha, RemoteBranchSha) ==
    {RunUpdateStatus(in, GetState(sf, File), LocalBranchSha, RemoteBranchSha) :
        in \in SavedInputs(LocalBranchSha, RemoteBranchSha)}

\* The caches RunUpdateStatus on File and the worker's UpdateStates can leave
Refreshed(cache, sf, File, LocalBranchSha, RemoteBranchSha) ==
    {UpdateCachedStates(GetStateInternal(cache, File), MapAdd(EmptyMap, File, st)) :
        st \in Statuses(sf, File, LocalBranchSha, RemoteBranchSha)}

InitSaved ==
    /\ disk \in SavedDisks
    /\ StatusFile = LoadStatusFile(NewStatusFile, disk, ProviderKey("origin", "master"))
    /\ crashed = FALSE
    /\ last = NoCall
    /\ snap = NoSnapshot
    /\ RemoteName = "origin"
    /\ BranchName = "master"
    /\ UseLocking = FALSE
    /\ GThreadPool = TRUE
    /\ CommandQueue = <<>>
    /\ Commands = [c \in CommandIds |-> NoCommand]
    /\ \E r \in Repos : HEAD = r[1] /\ RemoteHead = r[2]
    /\ StateCache \in {c \in [Paths -> UNION {Statuses(StatusFile, p, HEAD, RemoteHead) :
                                                  p \in Paths}] :
                          \A p \in Paths : c[p] \in Statuses(StatusFile, p, HEAD, RemoteHead)}
    /\ syncCmd = 0
    /\ Tag = NoRef
    /\ Index = "Valid"
    /\ LocalChanges = {}
    /\ Stash = <<>>
    /\ Rebase = NoRebase
    /\ ci = NoCheckIn
    /\ sy = NoSync
    /\ us = NoUpdate

\* FGitCheckOutWorker on one file, without locking: a failed Save returns before the
\* status is refreshed
Saved_CheckOut ==
    /\ ~crashed /\ last.n < MaxOps
    /\ \E File \in SavedFiles, writeOk \in BOOLEAN :
          LET State == GetStateInternal(StateCache, File)[File]
              r == CheckOutLedger(StatusFile, StateCache, File, LiveKey, writeOk)
          IN  /\ StatusFile' = r.sf
              /\ disk' = IF r.wrote THEN FileWith(r.sf.LoadedData.sections) ELSE disk
              /\ crashed' = r.crash
              /\ StateCache' \in IF r.ret
                                 THEN Refreshed(StateCache, r.sf, File, HEAD, RemoteHead)
                                 ELSE {GetStateInternal(StateCache, File)}
              /\ last' = [NoCall EXCEPT !.n = last.n + 1,
                             !.op = "CheckOut", !.File = File, !.ret = r.ret,
                             !.saveFailed = ~r.ret,
                             !.acted = ~(IsCheckedOut(State) \/ IsConflicted(State)
                                         \/ IsCheckedOutOther(State))]
    /\ UNCHANGED <<snap, settingVars, CommandQueue, Commands, syncCmd, gitVars, workerVars>>

\* FGitRevertWorker on one file: RunSyncFile at the entry's pin with the state
\* Unchanged when the cached state can be reverted, then the refresh
Saved_Revert ==
    /\ ~crashed /\ last.n < MaxOps
    /\ \E File \in SavedFiles, outcome \in SyncFileOutcomes, writeOk \in BOOLEAN :
          LET State == GetStateInternal(StateCache, File)[File]
              SavedState == GetState(StatusFile, File)
              r == IF CanRevert(State)
                   THEN RunSyncFile(StatusFile, File, SavedState.CheckedOutRevision,
                                    "Unchanged", outcome, LiveKey, writeOk)
                   ELSE [sf |-> StatusFile, wrote |-> FALSE, crash |-> FALSE, ret |-> TRUE,
                         saved |-> TRUE]
          IN  /\ StatusFile' = r.sf
              /\ disk' = IF r.wrote THEN FileWith(r.sf.LoadedData.sections) ELSE disk
              /\ crashed' = r.crash
              /\ Index' = IF CanRevert(State) /\ outcome = "reset" THEN "Invalid" ELSE Index
              /\ StateCache' \in Refreshed(StateCache, r.sf, File, HEAD, RemoteHead)
              /\ last' = [NoCall EXCEPT !.n = last.n + 1,
                                        !.op = "Revert", !.File = File, !.ret = r.ret,
                                        !.saveFailed = ~r.saved,
                                        !.acted = CanRevert(State), !.outcome = outcome]
    /\ UNCHANGED <<snap, settingVars, CommandQueue, Commands, syncCmd, HEAD, RemoteHead, Tag,
                   LocalChanges, Stash, Rebase, workerVars>>

\* FGitResolveWorker on one file: a failed Save returns before the status is
\* refreshed
Saved_Resolve ==
    /\ ~crashed /\ last.n < MaxOps
    /\ \E File \in SavedFiles, writeOk \in BOOLEAN :
          LET State == GetStateInternal(StateCache, File)[File]
              r == ResolveLedger(StatusFile, StateCache, File, RemoteHead, LiveKey, writeOk)
          IN  /\ StatusFile' = r.sf
              /\ disk' = IF r.wrote THEN FileWith(r.sf.LoadedData.sections) ELSE disk
              /\ crashed' = r.crash
              /\ StateCache' \in IF r.ret
                                 THEN Refreshed(StateCache, r.sf, File, HEAD, RemoteHead)
                                 ELSE {GetStateInternal(StateCache, File)}
              /\ last' = [NoCall EXCEPT !.n = last.n + 1,
                                        !.op = "Resolve", !.File = File, !.ret = r.ret,
                                        !.saveFailed = ~r.ret,
                                        !.acted = IsConflicted(State)]
    /\ UNCHANGED <<snap, settingVars, CommandQueue, Commands, syncCmd, gitVars, workerVars>>

\* FGitSyncWorker on one file: a file whose cached state is not current is synced to
\* the remote head by RunSyncFile, then the refresh; a current file fails the command
Saved_SyncFile ==
    /\ ~crashed /\ last.n < MaxOps
    /\ \E File \in SavedFiles, outcome \in SyncFileOutcomes, writeOk \in BOOLEAN :
          LET State == GetStateInternal(StateCache, File)[File]
              r == IF ~IsCurrent(State)
                   THEN RunSyncFile(StatusFile, File, RemoteHead, "Unknown", outcome,
                                    LiveKey, writeOk)
                   ELSE [sf |-> StatusFile, wrote |-> FALSE, crash |-> FALSE, ret |-> FALSE,
                         saved |-> TRUE]
          IN  /\ StatusFile' = r.sf
              /\ disk' = IF r.wrote THEN FileWith(r.sf.LoadedData.sections) ELSE disk
              /\ crashed' = r.crash
              /\ Index' = IF ~IsCurrent(State) /\ outcome = "reset" THEN "Invalid" ELSE Index
              /\ StateCache' \in IF IsCurrent(State)
                                 THEN {GetStateInternal(StateCache, File)}
                                 ELSE Refreshed(StateCache, r.sf, File, HEAD, RemoteHead)
              /\ last' = [NoCall EXCEPT !.n = last.n + 1,
                                        !.op = "Sync", !.File = File, !.ret = r.ret,
                                        !.saveFailed = ~r.saved,
                                        !.acted = ~IsCurrent(State), !.outcome = outcome]
    /\ UNCHANGED <<snap, settingVars, CommandQueue, Commands, syncCmd, HEAD, RemoteHead, Tag,
                   LocalChanges, Stash, Rebase, workerVars>>

\* FGitSyncWorker on the repository root, a GetLatest that runs to the end without a
\* conflict (SpecSync has its steps): nothing when the branch is up to date,
\* otherwise the branch is rebased on the remote head, every entry unpinned, the
\* ledger saved and the status refreshed
Saved_GetLatest ==
    /\ ~crashed /\ last.n < MaxOps /\ Index = "Valid"
    /\ \E writeOk \in BOOLEAN :
          LET bUpToDate == GetMergeBase(HEAD, RemoteHead) = RemoteHead
              sv == Save(ResetPins(StatusFile, DOMAIN StatusFile.SavedStates, LiveKey),
                         LiveKey, FALSE, writeOk)
              NewHead == RebasedOnto(HEAD, RemoteHead)
          IN  IF bUpToDate
              THEN /\ last' = [NoCall EXCEPT !.n = last.n + 1, !.op = "GetLatest",
                                             !.acted = FALSE]
                   /\ UNCHANGED <<StatusFile, disk, crashed, StateCache, HEAD>>
              ELSE /\ StatusFile' = IF sv.ret THEN sv.sf ELSE SyncCleanup(sv.sf)
                   /\ disk' = IF sv.wrote THEN FileWith(sv.sf.LoadedData.sections) ELSE disk
                   /\ crashed' = sv.crash
                   /\ HEAD' = NewHead
                   /\ StateCache' \in
                         IF sv.ret
                         THEN {c \in [Paths -> UNION {Statuses(sv.sf, p, NewHead, RemoteHead) :
                                                        p \in Paths}] :
                                 \A p \in Paths :
                                    c[p] \in Statuses(sv.sf, p, NewHead, RemoteHead)}
                         ELSE {StateCache}
                   /\ last' = [NoCall EXCEPT !.n = last.n + 1,
                                        !.op = "GetLatest", !.ret = sv.ret,
                                             !.saveFailed = ~sv.ret,
                                             !.acted = TRUE]
    /\ UNCHANGED <<snap, settingVars, CommandQueue, Commands, syncCmd, RemoteHead, Tag, Index,
                   LocalChanges, Stash, Rebase, workerVars>>

\* FGitCheckInWorker on one file, a Check-In that commits and pushes (SpecCheckIn has
\* its steps): the file is marked at the new commit, the ledger saved and the status
\* refreshed
Saved_CheckIn ==
    /\ ~crashed /\ last.n < MaxOps /\ Index = "Valid"
    /\ HEAD \in {"c1", "r1"} /\ GetMergeBase(HEAD, RemoteHead) = RemoteHead
    /\ \E File \in SavedFiles, writeOk \in BOOLEAN :
          LET State == GetStateInternal(StateCache, File)[File]
              NewCommitSha == CommitOn(HEAD)
              sv == Save(MarkCheckedIn(StatusFile, {File}, NewCommitSha, LiveKey),
                         LiveKey, FALSE, writeOk)
          IN  /\ CanCheckIn(State)
              /\ StatusFile' = sv.sf
              /\ disk' = IF sv.wrote THEN FileWith(sv.sf.LoadedData.sections) ELSE disk
              /\ crashed' = sv.crash
              /\ HEAD' = NewCommitSha
              /\ RemoteHead' = NewCommitSha
              /\ StateCache' \in
                    IF sv.ret
                    THEN Refreshed(StateCache, sv.sf, File, NewCommitSha, NewCommitSha)
                    ELSE {StateCache}
              /\ last' = [NoCall EXCEPT !.n = last.n + 1,
                                        !.op = "CheckIn", !.File = File, !.ret = sv.ret,
                                        !.saveFailed = ~sv.ret,
                                        !.acted = TRUE]
    /\ UNCHANGED <<snap, settingVars, CommandQueue, Commands, syncCmd, Tag, Index,
                   LocalChanges, Stash, Rebase, workerVars>>

SavedNext ==
    \/ Saved_CheckOut
    \/ Saved_Revert
    \/ Saved_Resolve
    \/ Saved_SyncFile
    \/ Saved_GetLatest
    \/ Saved_CheckIn

SpecSaved == InitSaved /\ [][SavedNext]_vars

(***************************************************************************)
(* RemoveRedundantErrors on a command's messages                           *)
(***************************************************************************)
\* The characters of a message; a message is a sequence of them
Chars == {"p", "P", "q"}

\* FString::Contains compares without regard to case
ToLower(c) == IF c = "P" THEN "p" ELSE c

\* String.Contains(Filter)
Contains(String, Filter) ==
    \E i \in 1..Len(String) :
        /\ i + Len(Filter) - 1 <= Len(String)
        /\ \A j \in 1..Len(Filter) : ToLower(String[i + j - 1]) = ToLower(Filter[j])

\* Error lines git can print, and the texts they are filtered by
Lines == {<<c>> : c \in Chars} \cup {<<c, d>> : c \in Chars, d \in Chars}
Filters == {<<"p">>, <<"q">>, <<"p", "q">>, <<"P", "p">>}
Messages ==
    {<<>>} \cup {<<l>> : l \in Lines} \cup {<<l, m>> : l \in Lines, m \in Lines}
        \cup {<<l, m, n>> : l \in {<<"p">>, <<"q">>, <<"q", "p">>}, m \in Lines,
                            n \in {<<"p">>, <<"q">>, <<"P", "q">>}}

\* RemoveRedundantErrors, were it to promote every failed command left without errors
RemoveRedundantErrorsPromotesEmpty(InCommand, InFilter) ==
    LET kept == SelectSeq(InCommand.ErrorMessages, LAMBDA l : ~Contains(l, InFilter))
        moved == SelectSeq(InCommand.ErrorMessages, LAMBDA l : Contains(l, InFilter))
    IN  [InCommand EXCEPT !.ErrorMessages = kept,
                          !.InfoMessages = @ \o moved,
                          !.bCommandSuccessful = @ \/ kept = <<>>]

\* The loop over ErrorMessages from line i: a line that contains the filter is added
\* to InfoMessages and found is set
RECURSIVE CopyRedundant(_, _, _, _)
CopyRedundant(c, InFilter, i, bFoundRedundantError) ==
    IF i > Len(c.ErrorMessages) THEN [c |-> c, bFoundRedundantError |-> bFoundRedundantError]
    ELSE IF Contains(c.ErrorMessages[i], InFilter)
    THEN CopyRedundant([c EXCEPT !.InfoMessages = Append(@, c.ErrorMessages[i])],
                       InFilter, i + 1, TRUE)
    ELSE CopyRedundant(c, InFilter, i + 1, bFoundRedundantError)

\* ErrorMessages.RemoveAll(FRemoveRedundantErrors(InFilter)): the lines that do not
\* contain the filter, in their order
RECURSIVE RemoveAll(_, _)
RemoveAll(msgs, InFilter) ==
    IF msgs = <<>> THEN <<>>
    ELSE IF Contains(Head(msgs), InFilter) THEN RemoveAll(Tail(msgs), InFilter)
    ELSE <<Head(msgs)>> \o RemoveAll(Tail(msgs), InFilter)

\* RemoveRedundantErrors
RemoveRedundantErrors(InCommand, InFilter) ==
    LET r == CopyRedundant(InCommand, InFilter, 1, FALSE)
        removed == [r.c EXCEPT !.ErrorMessages = RemoveAll(@, InFilter)]
    IN  IF r.bFoundRedundantError /\ Len(removed.ErrorMessages) = 0
           /\ ~removed.bCommandSuccessful
        THEN [removed EXCEPT !.bCommandSuccessful = TRUE]
        ELSE removed

\* A command whose git calls have run: it has its error lines and some info line
InitErrors ==
    /\ StatusFile = NewStatusFile
    /\ disk = NoFile
    /\ crashed = FALSE
    /\ last = NoCall
    /\ snap = NoSnapshot
    /\ RemoteName = "origin"
    /\ BranchName = "master"
    /\ UseLocking = FALSE
    /\ GThreadPool = TRUE
    /\ CommandQueue = <<>>
    /\ \E errors \in Messages, infos \in {<<>>, <<<<"q">>>>}, ok \in BOOLEAN :
          Commands = [c \in CommandIds |->
                         IF c = 1
                         THEN [NewCommand("a", "origin", "master", FALSE, TRUE) EXCEPT
                                  !.ErrorMessages = errors, !.InfoMessages = infos,
                                  !.bCommandSuccessful = ok]
                         ELSE NoCommand]
    /\ StateCache = EmptyMap
    /\ syncCmd = 0
    /\ HEAD = "c0"
    /\ RemoteHead = "c0"
    /\ Tag = NoRef
    /\ Index = "Valid"
    /\ LocalChanges = {}
    /\ Stash = <<>>
    /\ Rebase = NoRebase
    /\ ci = NoCheckIn
    /\ sy = NoSync
    /\ us = NoUpdate

\* A worker calls RemoveRedundantErrors on its command
Errors_RemoveRedundantErrors ==
    /\ \E c \in CommandIds, InFilter \in Filters :
          /\ Commands[c].used
          /\ Commands' = [Commands EXCEPT ![c] = RemoveRedundantErrors(@, InFilter)]
          /\ last' = [NoCall EXCEPT !.op = "RemoveRedundantErrors", !.n = c,
                                    !.Filter = InFilter,
                                    !.bWasSuccessful = Commands[c].bCommandSuccessful]
    /\ UNCHANGED <<StatusFile, disk, crashed, snap, settingVars, CommandQueue, StateCache,
                   syncCmd, gitVars, workerVars>>

ErrorsNext == Errors_RemoveRedundantErrors

SpecErrors == InitErrors /\ [][ErrorsNext]_vars

(***************************************************************************)
(* FGitUpdateStatusWorker on every file                                    *)
(***************************************************************************)
\* RunUpdateStatus on InFiles, were the remote fold of a file that has a line in the
\* remote diff applied to every file
RunUpdateStatusFilesRemoteForAll(InFiles, ins, sf, LocalBranchSha, RemoteBranchSha) ==
    LET Changed == {f \in InFiles : ins[f].Remote # NoLine}
    IN  [f \in InFiles |->
            IF Changed = {} \/ ins[f].Remote # NoLine
            THEN RunUpdateStatus(ins[f], GetState(sf, f), LocalBranchSha, RemoteBranchSha)
            ELSE RunUpdateStatus([ins[f] EXCEPT
                                     !.Remote = ins[CHOOSE g \in Changed : TRUE].Remote],
                                 GetState(sf, f), LocalBranchSha, RemoteBranchSha)]

\* RunUpdateStatus on InFiles: every loop finds the state it folds into by the name
\* of the file (States.Find(It.Key)), so each file goes through the folds with the
\* lines the commands print for it
RunUpdateStatusFiles(InFiles, ins, sf, LocalBranchSha, RemoteBranchSha) ==
    [f \in InFiles |->
        RunUpdateStatus(ins[f], GetState(sf, f), LocalBranchSha, RemoteBranchSha)]

\* The status file before the update: a is not in the ledger, checked out and not
\* pinned, or unchanged at c0; b is not in the ledger, or checked out and not pinned
UpdateDisks ==
    {FileWith(MapAdd(EmptyMap, ProviderKey("origin", "master"),
                     [p \in Files |-> ToJSon(m[p])])) :
        Files \in SUBSET Paths,
        m \in {e \in [Paths -> {[State |-> "CheckedOut", CheckedOutRevision |-> NoPin],
                                [State |-> "Unchanged", CheckedOutRevision |-> "c0"]}] :
                 e["b"].State = "CheckedOut"}}

\* What RunFetch can leave the remote branch at
Fetched(remote) == IF remote = "c0" THEN {"c0", "r1"} ELSE {remote}

InitUpdate ==
    /\ disk \in UpdateDisks
    /\ StatusFile = LoadStatusFile(NewStatusFile, disk, ProviderKey("origin", "master"))
    /\ crashed = FALSE
    /\ last = NoCall
    /\ snap = NoSnapshot
    /\ RemoteName = "origin"
    /\ BranchName = "master"
    /\ UseLocking = FALSE
    /\ GThreadPool = TRUE
    /\ CommandQueue = <<>>
    /\ Commands = [c \in CommandIds |-> NoCommand]
    /\ StateCache = EmptyMap
    /\ syncCmd = 0
    /\ \E r \in Repos : HEAD = r[1] /\ RemoteHead = r[2]
    /\ Tag = NoRef
    /\ Index = "Valid"
    /\ LocalChanges = {}
    /\ Stash = <<>>
    /\ Rebase = NoRebase
    /\ ci = NoCheckIn
    /\ sy = NoSync
    /\ us = [NoUpdate EXCEPT !.pc = "execute"]

\* Execute on every file: RunFetch, then RunUpdateStatus, which fills States unless
\* one of its commands fails
UpdateFiles_Execute ==
    /\ UpdateStatusAt("execute")
    /\ \E fetched \in Fetched(RemoteHead), bResult \in BOOLEAN :
          /\ RemoteHead' = fetched
          /\ \E ins \in [Paths -> StatusInputs(HEAD, fetched, UseLocking)] :
                us' = [us EXCEPT
                          !.pc = "returned", !.ins = ins, !.LocalBranchSha = HEAD,
                          !.RemoteBranchSha = fetched,
                          !.States = IF bResult
                                     THEN RunUpdateStatusFiles(Paths, ins, StatusFile, HEAD,
                                                               fetched)
                                     ELSE EmptyMap]
    /\ UNCHANGED <<ledgerVars, settingVars, providerVars, HEAD, Tag, Index, LocalChanges,
                   Stash, Rebase, ci, sy>>

\* Tick on the finished command: FGitUpdateStatusWorker::UpdateStates
UpdateFiles_UpdateStates ==
    /\ UpdateStatusAt("returned")
    /\ StateCache' = UpdateCachedStates(StateCache, us.States)
    /\ us' = [us EXCEPT !.pc = "applied"]
    /\ UNCHANGED <<ledgerVars, settingVars, CommandQueue, Commands, syncCmd, gitVars, ci, sy>>

UpdateNext ==
    \/ UpdateFiles_Execute
    \/ UpdateFiles_UpdateStates

SpecUpdate == InitUpdate /\ [][UpdateNext]_vars

(***************************************************************************)
(* The folds on their own: one fold applied to any state                   *)
(***************************************************************************)
\* Revisions of a ledger entry in the folds
FoldPins == {NoPin, "c0", "c1"}

\* The states a fold is applied to
FoldStates ==
    {[FileStatus(ws, outdated, Lock.UserLocked, FALSE) EXCEPT
            !.CheckedOutRevision = pin, !.RemoteState = remote,
            !.LockId = Lock.LockId] :
        ws \in WorkingCopyStates, outdated \in BOOLEAN, pin \in {NoPin, "c0"},
        remote \in {"Unknown", "Modified", "Deleted"},
        Lock \in {NoLock, [UserLocked |-> "me", bLockedByOther |-> FALSE, LockId |-> 1]}}

\* The ledger entries folded in
FoldEntries == [State : WorkingCopyStates, CheckedOutRevision : FoldPins]

InitFold ==
    /\ StatusFile = NewStatusFile
    /\ disk = NoFile
    /\ crashed = FALSE
    /\ last = NoCall
    /\ snap = NoSnapshot
    /\ RemoteName = "origin"
    /\ BranchName = "master"
    /\ UseLocking = TRUE
    /\ GThreadPool = TRUE
    /\ CommandQueue = <<>>
    /\ Commands = [c \in CommandIds |-> NoCommand]
    /\ StateCache = EmptyMap
    /\ syncCmd = 0
    /\ HEAD \in {"c0", "c1"}
    /\ RemoteHead = "c0"
    /\ Tag = NoRef
    /\ Index = "Valid"
    /\ LocalChanges = {}
    /\ Stash = <<>>
    /\ Rebase = NoRebase
    /\ ci = NoCheckIn
    /\ sy = NoSync
    /\ \E st \in FoldStates :
          us = [NoUpdate EXCEPT !.pc = "fold", !.st = st, !.LocalBranchSha = HEAD,
                                !.RemoteBranchSha = RemoteHead]

\* CombineWithLocalState with the state Other
Fold_Local ==
    /\ UpdateStatusAt("fold")
    /\ \E ws \in WorkingCopyStates :
          us' = [us EXCEPT !.pc = "folded", !.fold = "local", !.before = us.st,
                           !.Other = Parsed(ws),
                           !.st = CombineWithLocalState(us.st, Parsed(ws)),
                           !.logged = CombineWithLocalStateLogs(us.st, Parsed(ws))]
    /\ UNCHANGED <<ledgerVars, settingVars, providerVars, gitVars, ci, sy>>

\* CombineWithSavedState with a ledger entry
Fold_Saved ==
    /\ UpdateStatusAt("fold")
    /\ \E SavedState \in FoldEntries :
          us' = [us EXCEPT !.pc = "folded", !.fold = "saved", !.before = us.st,
                           !.SavedState = SavedState,
                           !.st = CombineWithSavedState(us.st, SavedState,
                                                        us.LocalBranchSha)]
    /\ UNCHANGED <<ledgerVars, settingVars, providerVars, gitVars, ci, sy>>

\* CombineWithRemoteState with the state Other
Fold_Remote ==
    /\ UpdateStatusAt("fold")
    /\ \E ws \in WorkingCopyStates :
          us' = [us EXCEPT !.pc = "folded", !.fold = "remote", !.before = us.st,
                           !.Other = Parsed(ws),
                           !.st = CombineWithRemoteState(us.st, Parsed(ws))]
    /\ UNCHANGED <<ledgerVars, settingVars, providerVars, gitVars, ci, sy>>

\* CombineWithLockedState with a lock
Fold_Locked ==
    /\ UpdateStatusAt("fold")
    /\ \E Lock \in {[UserLocked |-> "me", bLockedByOther |-> FALSE, LockId |-> 1],
                    [UserLocked |-> "other", bLockedByOther |-> TRUE, LockId |-> 2]} :
          us' = [us EXCEPT !.pc = "folded", !.fold = "locked", !.before = us.st,
                           !.Other = [UnknownState EXCEPT
                                         !.UserLocked = Lock.UserLocked,
                                         !.bLockedByOther = Lock.bLockedByOther,
                                         !.LockId = Lock.LockId],
                           !.st = CombineWithLockedState(us.st, Lock)]
    /\ UNCHANGED <<ledgerVars, settingVars, providerVars, gitVars, ci, sy>>

\* ResolveConflict with the state OldState, the file on the disk or not
Fold_Resolve ==
    /\ UpdateStatusAt("fold")
    /\ \E OldState \in WorkingCopyStates, bFileExists \in BOOLEAN :
          us' = [us EXCEPT !.pc = "folded", !.fold = "resolve", !.before = us.st,
                           !.OldState = OldState, !.in.bIsValid = bFileExists,
                           !.st = ResolveConflict(us.st, OldState, bFileExists)]
    /\ UNCHANGED <<ledgerVars, settingVars, providerVars, gitVars, ci, sy>>

FoldNext ==
    \/ Fold_Local
    \/ Fold_Saved
    \/ Fold_Remote
    \/ Fold_Locked
    \/ Fold_Resolve

SpecFold == InitFold /\ [][FoldNext]_vars

(***************************************************************************)
(* UpdateCachedStates on its own: any state into any cached state          *)
(***************************************************************************)
\* Locks of a cached or new state: none, the local user's under two ids, somebody
\* else's
CacheLocks ==
    {NoLock, [UserLocked |-> "me", bLockedByOther |-> FALSE, LockId |-> 1],
     [UserLocked |-> "me", bLockedByOther |-> FALSE, LockId |-> 3],
     [UserLocked |-> "other", bLockedByOther |-> TRUE, LockId |-> 2]}

\* The states cached and the states published
CacheStatuses ==
    {[FileStatus(ws, outdated, Lock.UserLocked, Lock.bLockedByOther) EXCEPT
            !.RemoteState = remote, !.bStaged = staged, !.CheckedOutRevision = pin,
            !.LockId = Lock.LockId, !.History = History] :
        ws \in {"Unknown", "Modified"}, outdated \in BOOLEAN, staged \in BOOLEAN,
        remote \in {"Unknown", "Modified"}, pin \in {NoPin, "c0"}, Lock \in CacheLocks,
        History \in {<<>>, <<"c0">>}}

InitCache ==
    /\ StatusFile = NewStatusFile
    /\ disk = NoFile
    /\ crashed = FALSE
    /\ last = NoCall
    /\ snap = NoSnapshot
    /\ RemoteName = "origin"
    /\ BranchName = "master"
    /\ UseLocking = TRUE
    /\ GThreadPool = TRUE
    /\ CommandQueue = <<>>
    /\ Commands = [c \in CommandIds |-> NoCommand]
    /\ StateCache \in {EmptyMap} \cup {MapAdd(EmptyMap, "a", st) : st \in CacheStatuses}
    /\ syncCmd = 0
    /\ HEAD = "c0"
    /\ RemoteHead = "c0"
    /\ Tag = NoRef
    /\ Index = "Valid"
    /\ LocalChanges = {}
    /\ Stash = <<>>
    /\ Rebase = NoRebase
    /\ ci = NoCheckIn
    /\ sy = NoSync
    /\ us = [NoUpdate EXCEPT !.pc = "cache"]

\* UpdateCachedStates with one state of the file
Cache_UpdateCachedStates ==
    /\ UpdateStatusAt("cache")
    /\ \E InState \in CacheStatuses :
          LET InStates == MapAdd(EmptyMap, us.File, InState)
              State == GetStateInternal(StateCache, us.File)[us.File]
          IN  /\ StateCache' = UpdateCachedStates(StateCache, InStates)
              /\ us' = [us EXCEPT !.pc = "cached", !.before = State, !.Other = InState,
                                  !.st = StateCache'[us.File]]
              /\ last' = [NoCall EXCEPT !.op = "UpdateCachedStates",
                                        !.n = NbStatesUpdated(StateCache, InStates),
                                        !.ret = NbStatesUpdated(StateCache, InStates) > 0]
    /\ UNCHANGED <<StatusFile, disk, crashed, snap, settingVars, CommandQueue, Commands,
                   syncCmd, gitVars, ci, sy>>

CacheNext ==
    \/ Cache_UpdateCachedStates

SpecCache == InitCache /\ [][CacheNext]_vars

(***************************************************************************)
(* Two commands on two pool threads: a Sync of everything and a CheckOut   *)
(* of one file, each step of the one between any two steps of the other    *)
(***************************************************************************)
InitParallel ==
    /\ disk \in SyncDisks
    /\ StatusFile = LoadStatusFile(NewStatusFile, disk, ProviderKey("origin", "master"))
    /\ crashed = FALSE
    /\ last = NoCall
    /\ snap = NoSnapshot
    /\ RemoteName = "origin"
    /\ BranchName = "master"
    /\ UseLocking = FALSE
    /\ GThreadPool = TRUE
    /\ CommandQueue = <<1>>
    /\ \E file \in Paths :
          Commands = IssueCommand(<<>>, [c \in CommandIds |-> NoCommand], 1,
                                  NewCommand(file, "origin", "master", FALSE, TRUE),
                                  TRUE).Commands
    /\ StateCache \in [Paths -> SyncCached]
    /\ syncCmd = 0
    /\ \E r \in Repos : HEAD = r[1] /\ RemoteHead = r[2]
    /\ Tag = NoRef
    /\ Index = "Valid"
    /\ LocalChanges = {p \in Paths : IsModified(StateCache[p])}
    /\ Stash = <<>>
    /\ Rebase = NoRebase
    /\ ci = NoCheckIn
    /\ us = NoUpdate
    /\ sy = [NoSync EXCEPT !.pc = "fetch", !.Files = {Root}, !.start = HEAD,
                           !.startLedger = StatusFile.SavedStates,
                           !.startChanges = LocalChanges, !.startIndex = Index]

ParallelNext ==
    \/ Sync_Fetch
    \/ Sync_Check
    \/ Sync_CacheStates
    \/ Sync_Stash
    \/ Sync_Diff
    \/ Sync_Pull
    \/ Sync_Resolve
    \/ Sync_Rebased
    \/ Sync_StashPop
    \/ Sync_Pins
    \/ \E c \in CommandIds : DoThreadedWork(c)

SpecParallel == InitParallel /\ [][ParallelNext]_vars

(***************************************************************************)
(* Resolve, then status updates while the remote branch moves on           *)
(***************************************************************************)
\* The remote branch: c0, then r1, then n_r1
NextRemote(c) == IF c = "c0" THEN "r1" ELSE "n_r1"

\* git log -1 <remote branch> -- <file>: the last of the remote branch's commits that
\* changed the file, Changed being the commits that changed it
LastChangedRev(RemoteBranchSha, Changed) ==
    LET revs == Ancestors(RemoteBranchSha) \cap Changed
    IN  IF revs = {} THEN NoRef
        ELSE CHOOSE c \in revs : \A x \in revs : x \in Ancestors(c)

\* What RunUpdateStatus reads for the file when Changed are the commits that changed
\* it: the remote diff has a line for it when a commit between the merge base and
\* the remote head changed it, and the pin has the last change when git log gives
\* one revision (logOk) whose merge base with the pin is that revision
ResolveInputs(LocalBranchSha, RemoteBranchSha, Changed, pin, bUseLocking) ==
    LET MergeBase == GetMergeBase(LocalBranchSha, RemoteBranchSha)
        Since == (Ancestors(RemoteBranchSha) \ Ancestors(MergeBase)) \cap Changed
        LastChanged == LastChangedRev(RemoteBranchSha, Changed)
    IN  [Diff : IF LocalBranchSha # MergeBase THEN {NoLine, "Modified"} ELSE {NoLine},
         Status : {"Unchanged", "Modified", "Conflicted"},
         bIsValid : BOOLEAN,
         Remote : IF Since # {} THEN {"Modified", "Added", "Deleted"} ELSE {NoLine},
         bHasLastChange : IF pin # NoPin /\ LastChanged # NoRef
                             /\ GetMergeBase(LastChanged, pin) = LastChanged
                          THEN BOOLEAN ELSE {FALSE},
         Lock : IF bUseLocking
                THEN {NoLock, [UserLocked |-> "me", bLockedByOther |-> FALSE, LockId |-> 1],
                      [UserLocked |-> "other", bLockedByOther |-> TRUE, LockId |-> 2]}
                ELSE {NoLock}]

\* The status file before the Resolve: none, or the entry the conflict loop of a
\* Sync wrote for the file, Conflicted and pinned at the remote head of then
ResolveDisks ==
    {NoFile,
     FileWith(MapAdd(EmptyMap, ProviderKey("origin", "master"),
                     MapAdd(EmptyMap, "a",
                            ToJSon([State |-> "Conflicted", CheckedOutRevision |-> "c0"]))))}

\* The file is conflicted in the cache; locking is on, a file without a lock being
\* what any file is with locking off
InitResolve ==
    /\ disk \in ResolveDisks
    /\ StatusFile = LoadStatusFile(NewStatusFile, disk, ProviderKey("origin", "master"))
    /\ crashed = FALSE
    /\ last = NoCall
    /\ snap = NoSnapshot
    /\ RemoteName = "origin"
    /\ BranchName = "master"
    /\ UseLocking = TRUE
    /\ GThreadPool = TRUE
    /\ CommandQueue = <<>>
    /\ Commands = [c \in CommandIds |-> NoCommand]
    /\ StateCache = MapAdd(EmptyMap, "a", FileStatus("Conflicted", TRUE, "", FALSE))
    /\ HEAD \in {"c0", "c1"}
    /\ RemoteHead \in {"c0", "r1"}
    /\ syncCmd = 0
    /\ Tag = NoRef
    /\ Index = "Valid"
    /\ LocalChanges = {}
    /\ Stash = <<>>
    /\ Rebase = NoRebase
    /\ ci = NoCheckIn
    /\ sy = NoSync
    /\ \E Changed \in SUBSET Ancestors(RemoteHead) :
          us = [NoUpdate EXCEPT !.pc = "start", !.LocalBranchSha = HEAD,
                                !.RemoteBranchSha = RemoteHead, !.Changed = Changed]

\* FGitResolveWorker on the file: the ledger entry of a file whose cached state is
\* conflicted becomes CheckedOut, pinned at the remote head; Save; then the status
\* update, and UpdateStates
Resolve_Execute ==
    /\ UpdateStatusAt("start")
    /\ \E writeOk \in BOOLEAN :
          LET State == GetStateInternal(StateCache, "a")["a"]
              r == ResolveLedger(StatusFile, StateCache, "a", RemoteHead, LiveKey, writeOk)
              pin == GetState(r.sf, "a").CheckedOutRevision
          IN  /\ StatusFile' = r.sf
              /\ disk' = IF r.wrote THEN FileWith(r.sf.LoadedData.sections) ELSE disk
              /\ crashed' = r.crash
              /\ \E in \in ResolveInputs(HEAD, RemoteHead, us.Changed, pin, UseLocking) :
                    LET st == RunUpdateStatus(in, GetState(r.sf, "a"), HEAD, RemoteHead)
                    IN  /\ us' = IF r.ret
                                 THEN [us EXCEPT !.pc = "resolved", !.in = in, !.st = st,
                                                 !.RemoteBranchSha = RemoteHead,
                                                 !.resolved = @ \/ IsConflicted(State)]
                                 ELSE [us EXCEPT !.pc = "failed",
                                                 !.resolved = @ \/ IsConflicted(State)]
                        /\ StateCache' = IF r.ret
                                         THEN UpdateCachedStates(
                                                  GetStateInternal(StateCache, "a"),
                                                  MapAdd(EmptyMap, "a", st))
                                         ELSE GetStateInternal(StateCache, "a")
    /\ UNCHANGED <<last, snap, settingVars, CommandQueue, Commands, syncCmd, gitVars, ci, sy>>

\* RunFetch after somebody else pushed a commit, which changed the file or did not
Resolve_Fetch ==
    /\ ~crashed /\ us.pc # "start"
    /\ RemoteHead # "n_r1"
    /\ \E changes \in BOOLEAN :
          /\ RemoteHead' = NextRemote(RemoteHead)
          /\ us' = [us EXCEPT !.pc = "fetched",
                              !.Changed = IF changes THEN @ \cup {NextRemote(RemoteHead)}
                                          ELSE @]
    /\ UNCHANGED <<ledgerVars, settingVars, providerVars, HEAD, Tag, Index, LocalChanges,
                   Stash, Rebase, ci, sy>>

\* FGitUpdateStatusWorker on the file: RunUpdateStatus, and UpdateStates
Resolve_UpdateStatus ==
    /\ ~crashed /\ us.pc # "start"
    /\ LET pin == GetState(StatusFile, "a").CheckedOutRevision
       IN  \E in \in ResolveInputs(HEAD, RemoteHead, us.Changed, pin, UseLocking) :
              LET st == RunUpdateStatus(in, GetState(StatusFile, "a"), HEAD, RemoteHead)
              IN  /\ us' = [us EXCEPT !.pc = "updated", !.in = in, !.st = st,
                                      !.RemoteBranchSha = RemoteHead]
                  /\ StateCache' = UpdateCachedStates(GetStateInternal(StateCache, "a"),
                                                      MapAdd(EmptyMap, "a", st))
    /\ UNCHANGED <<ledgerVars, settingVars, CommandQueue, Commands, syncCmd, gitVars, ci, sy>>

ResolveNext ==
    \/ Resolve_Execute
    \/ Resolve_Fetch
    \/ Resolve_UpdateStatus

SpecResolve == InitResolve /\ [][ResolveNext]_vars

(***************************************************************************)
(* The whole of RunUpdateStatus for one file, on every input it can read   *)
(***************************************************************************)
\* Ledger entries a status file can hold for the file: a state FromChar gives, pinned
\* at "0" or at a commit
PipelineEntries ==
    [State : {"Unknown", "CheckedOut", "Modified", "Added", "Deleted", "Conflicted"},
     CheckedOutRevision : {NoPin, "c0", "r1"}]

\* The status file before the status update: none, or an entry for the file
PipelineDisks ==
    {NoFile} \cup
    {FileWith(MapAdd(EmptyMap, ProviderKey("origin", "master"),
                     MapAdd(EmptyMap, "a", ToJSon(s)))) : s \in PipelineEntries}

\* What RunUpdateStatus reads for the file: any state ParseNameStatusLine gives a line
\* of the two diffs, any state ParseStatusResults gives the file
PipelineInputs(LocalBranchSha, RemoteBranchSha) ==
    LET MergeBase == GetMergeBase(LocalBranchSha, RemoteBranchSha)
    IN  [Diff : IF LocalBranchSha # MergeBase
                THEN {NoLine, "Modified", "Added", "Deleted"} ELSE {NoLine},
         Status : {"Unknown", "Unchanged", "Modified", "Added", "Deleted", "Conflicted",
                   "NotControlled", "Ignored"},
         bIsValid : BOOLEAN,
         Remote : IF RemoteBranchSha # MergeBase
                  THEN {NoLine, "Modified", "Added", "Deleted", "Conflicted", "Unknown"}
                  ELSE {NoLine},
         bHasLastChange : IF RemoteBranchSha # MergeBase THEN BOOLEAN ELSE {FALSE},
         Lock : {NoLock, [UserLocked |-> "me", bLockedByOther |-> FALSE, LockId |-> 1],
                 [UserLocked |-> "other", bLockedByOther |-> TRUE, LockId |-> 2]}]

InitPipeline ==
    /\ disk \in PipelineDisks
    /\ StatusFile = LoadStatusFile(NewStatusFile, disk, ProviderKey("origin", "master"))
    /\ crashed = FALSE
    /\ last = NoCall
    /\ snap = NoSnapshot
    /\ RemoteName = "origin"
    /\ BranchName = "master"
    /\ UseLocking = TRUE
    /\ GThreadPool = TRUE
    /\ CommandQueue = <<>>
    /\ Commands = [c \in CommandIds |-> NoCommand]
    /\ StateCache = EmptyMap
    /\ syncCmd = 0
    /\ \E r \in Repos : HEAD = r[1] /\ RemoteHead = r[2]
    /\ Tag = NoRef
    /\ Index = "Valid"
    /\ LocalChanges = {}
    /\ Stash = <<>>
    /\ Rebase = NoRebase
    /\ ci = NoCheckIn
    /\ sy = NoSync
    /\ \E in \in PipelineInputs(HEAD, RemoteHead) :
          us = [NoUpdate EXCEPT !.pc = "pipeline", !.in = in, !.LocalBranchSha = HEAD,
                                !.RemoteBranchSha = RemoteHead]

\* FGitUpdateStatusWorker: RunUpdateStatus for the file, and UpdateStates, which
\* stores the status in the cache
Pipeline_UpdateStatus ==
    /\ UpdateStatusAt("pipeline")
    /\ LET st == RunUpdateStatus(us.in, GetState(StatusFile, "a"), HEAD, RemoteHead)
       IN  /\ us' = [us EXCEPT !.pc = "cached", !.st = st,
                               !.SavedState = GetState(StatusFile, "a")]
           /\ StateCache' = UpdateCachedStates(GetStateInternal(StateCache, "a"),
                                               MapAdd(EmptyMap, "a", st))
    /\ UNCHANGED <<ledgerVars, settingVars, CommandQueue, Commands, syncCmd, gitVars, ci, sy>>

PipelineNext == Pipeline_UpdateStatus

SpecPipeline == InitPipeline /\ [][PipelineNext]_vars

(***************************************************************************)
(* Properties                                                              *)
(***************************************************************************)
\* C1: whenever the persist step of SetState(path, entry, root, persist=true) fails,
\* SetState returns false, the ledger map equals its value before the call, and
\* GetState(path) still returns the old value.
C1_SetStateRollsBack ==
    [][(last'.op = "SetState" /\ last'.saveFailed) =>
         /\ last'.ret = FALSE
         /\ StatusFile'.SavedStates = StatusFile.SavedStates
         /\ \A p \in Paths : GetState(StatusFile', p) = GetState(StatusFile, p)]_vars

C2_SynchronousResultsApplied ==
    \A c \in CommandIds :
        (Commands[c].deleted /\ ~Commands[c].bAutoDelete) => Commands[c].nUpdateStates = 1

\* The step in which a pool thread runs the Execute of command c
Executes(c) == ~Commands[c].bExecuteProcessed /\ Commands'[c].bExecuteProcessed

\* C8: no worker's Execute, which runs on a pool thread, writes the ledger
\* (SetState, ClearState, Save, CacheStates, RestoreCachedStates).
C8_ExecuteLeavesLedgerAlone ==
    [][\A c \in CommandIds : Executes(c) => (StatusFile' = StatusFile /\ disk' = disk)]_vars

\* C9: no worker's Execute running on a pool thread inserts a placeholder into,
\* removes an entry from, or replaces an entry of the provider's StateCache.
C9_ExecuteLeavesCacheAlone ==
    [][\A c \in CommandIds : Executes(c) => StateCache' = StateCache]_vars

\* C10: the remote/branch key under which a worker saves the ledger is the one
\* captured in its Command at submission, also when the provider's settings were
\* changed after the submission.
C10_SavesUnderCapturedKey ==
    [][\A c \in CommandIds : Executes(c) =>
          \A Key \in (DOMAIN disk.sections) \cup (DOMAIN disk'.sections) :
              Section(disk', Key) # Section(disk, Key) =>
                  Key = ProviderKey(Commands[c].Remote, Commands[c].Branch)]_vars

\* C3: when a Check-In whose commit succeeded has its push fail, then once Execute
\* has returned HEAD is the commit it was at before the Check-In, and no requested
\* file's ledger entry has been changed to Unchanged.
C3_PushFailureRestoresHead ==
    (ci.pc = "returned" /\ ci.committed /\ ci.pushFailed) =>
        /\ HEAD = ci.start
        /\ \A f \in ci.Requested :
              \/ GetState(StatusFile, f).State # "Unchanged"
              \/ f \in DOMAIN ci.startLedger /\ GetState(StatusFile, f) = ci.startLedger[f]

\* C6: on every path on which Execute returns after it created the rollback tag, the
\* tag is gone, and when HEAD was soft-reset onto the remote head it is back at the
\* commit that was tagged.
C6_CleanupAlwaysRuns ==
    (ci.pc = "returned" /\ ci.tagged) =>
        /\ Tag = NoRef
        /\ ci.softReset => HEAD = ci.start

C7_FailedSyncRestoresWorkingTree ==
    (/\ sy.pc = "returned"
     /\ sy.exit \in {"stash", "diff", "rebase", "save"} \/ sy.popFailed) =>
        /\ LocalChanges = sy.startChanges
        /\ Stash = <<>>

\* C11: whenever the persist step of ClearState(path, root, persist=true) on a path
\* that has an entry fails, ClearState returns false and the entry is still in the
\* map with the value it had before the call.
C11_ClearStateRollsBack ==
    [][(last'.op = "ClearState" /\ last'.saveFailed) =>
         /\ last'.ret = FALSE
         /\ StatusFile'.SavedStates = StatusFile.SavedStates]_vars

C13_InvalidIndexStopsSync ==
    (sy.pc = "returned" /\ sy.startIndex # "Valid") =>
        /\ ~sy.bCommandSuccessful
        /\ StatusFile.SavedStates = sy.startLedger
        /\ HEAD = sy.start
        /\ LocalChanges = sy.startChanges

\* C14: when a Check-In has failed without having run push (invalid index, a failed
\* fetch, tag, soft reset, status, add or commit), then once Execute has returned HEAD
\* is the commit it was at before the Check-In and no ledger entry has changed.
C14_FailureBeforePushKeepsHistory ==
    (ci.pc = "returned" /\ ~ci.bCommandSuccessful /\ ~ci.pushRan) =>
        /\ HEAD = ci.start
        /\ StatusFile.SavedStates = ci.startLedger

LifecycleOk(c) ==
    /\ ~Commands[c].bExecuteProcessed => Commands[c].nExecute = 0
    /\ Commands[c].bExecuteProcessed =>
          \/ Commands[c].nExecute = 1 /\ ~Commands[c].bAbandoned
          \/ /\ Commands[c].nExecute = 0 /\ Commands[c].bAbandoned
             /\ ~Commands[c].bCommandSuccessful

Queued(q) == {q[i] : i \in 1..Len(q)}

Pending(q, cs) == SelectSeq(q, LAMBDA c : ~cs[c].bExecuteProcessed)

C17_ConflictedIsSticky ==
    [][(IsConflicted(us.st) /\ ~IsConflicted(us'.st)) => us.pc = "resolve"]_vars

\* C18: after a Sync of the repository root that succeeds and pulled changes, every
\* ledger entry is pinned at "0" and none is Deleted, the entries marked
\* Conflicted in the conflict loop included.
C18_SyncUnpinsEveryEntry ==
    (sy.pc = "returned" /\ sy.Files = {Root} /\ sy.bCommandSuccessful /\ sy.exit = "end") =>
        \A p \in DOMAIN StatusFile.SavedStates :
            /\ StatusFile.SavedStates[p].CheckedOutRevision = NoPin
            /\ StatusFile.SavedStates[p].State # "Deleted"

\* A successful root Sync that went through the conflict loop, wrote a Conflicted
\* entry there, and started from a ledger with a Deleted entry pinned at a commit
C18_Witness ==
    /\ sy.pc = "returned" /\ sy.Files = {Root} /\ sy.bCommandSuccessful /\ sy.exit = "end"
    /\ sy.rounds > 0 /\ sy.ledgerWritten
    /\ \E p \in DOMAIN sy.startLedger :
          sy.startLedger[p].State = "Deleted" /\ sy.startLedger[p].CheckedOutRevision # NoPin
    /\ \E p \in DOMAIN StatusFile.SavedStates : StatusFile.SavedStates[p].State = "Conflicted"

\* C19: when Check-In succeeds in full, the ledger entry of every file that was
\* checked in is Unchanged and pinned at the commit that was pushed (the new commit when
\* one was made), the status file on disk holds these entries, and the entries of the
\* files filtered out of the request are what they were.
C19_CheckInPinsAtNewCommit ==
    (ci.pc = "returned" /\ ci.bCommandSuccessful) =>
        /\ \A f \in ci.Files :
              /\ GetState(StatusFile, f) =
                    [State |-> "Unchanged", CheckedOutRevision |-> RemoteHead]
              /\ f \in DOMAIN Section(disk, LiveKey)
              /\ Section(disk, LiveKey)[f] = ToJSon(GetState(StatusFile, f))
        /\ ci.committed => RemoteHead \notin Ancestors(ci.start)
        /\ \A f \in ci.Requested \ ci.Files :
              GetState(StatusFile, f) = GetState([SavedStates |-> ci.startLedger], f)

\* A Check-In that succeeded, made a commit, and dropped a requested file that has a
\* ledger entry
C19_Witness ==
    /\ ci.pc = "returned" /\ ci.bCommandSuccessful /\ ci.committed
    /\ \E f \in ci.Requested \ ci.Files : f \in DOMAIN ci.startLedger

\* The requested files whose cached status forbids a check-in: Outdated flag set,
\* Conflicted, locked by somebody else, or neither modified, added nor checked out
Forbidden ==
    {f \in ci.Requested :
        LET st == ci.startCache[f]
        IN  \/ st.bOutdated
            \/ st.WorkingCopyState = "Conflicted"
            \/ st.bLockedByOther /\ st.UserLocked # ""
            \/ ~(IsModified(st) \/ IsAdded(st) \/ IsCheckedOut(st))}

\* With no requested file left the command fails and has run no git command that
\* changes something
NoFileNoMutation ==
    (ci.Requested # {} /\ Forbidden = ci.Requested /\ ci.pc # "filter") =>
        /\ ci.pc = "returned" /\ ~ci.bCommandSuccessful /\ ci.exit = "nofiles"
        /\ ci.ran = {} /\ HEAD = ci.start /\ Tag = NoRef /\ ci.Staged = {}

\* C20: Check-In never stages, commits or pushes a requested file whose cached status
\* forbids a check-in; when every requested file is forbidden the command fails
\* without a tag, reset, add, commit or push.
C20_ForbiddenFilesStayLocal ==
    /\ Forbidden \cap (ci.Staged \cup ci.Committed \cup ci.Pushed) = {}
    /\ NoFileNoMutation

\* C20, as the code has it: Check-In never stages or commits a requested file whose
\* cached status forbids a check-in, and its push sends the files it committed and
\* the files changed by the commits the branch already was ahead by; when every
\* requested file is forbidden the command fails without a tag, reset, add, commit
\* or push.
C20_ForbiddenFilesNotCommitted ==
    /\ Forbidden \cap (ci.Staged \cup ci.Committed) = {}
    /\ ci.Pushed \subseteq ci.Committed \cup ci.Ahead
    /\ NoFileNoMutation

\* A Check-In that dropped a forbidden file with uncommitted changes and pushed a
\* commit of the others
C20_Witness ==
    /\ ci.pc = "returned" /\ ci.bCommandSuccessful /\ ci.Committed # {}
    /\ ci.Pushed # {}
    /\ Forbidden \cap LocalChanges # {}

\* C21: Load, when there is no status file and no legacy file, or when the status
\* file has no section for the provider's remote and branch, returns true and
\* leaves the ledger empty, whatever it held before.
C21_LoadWithoutDocumentEmptiesLedger ==
    [][(last'.op = "Load" /\ ~last'.bLegacy /\ last'.readOk
        /\ (~disk.exists \/ LiveKey \notin DOMAIN disk.sections)) =>
         /\ last'.ret
         /\ StatusFile'.SavedStates = EmptyMap]_vars

\* C22: after CleanupStatusFile succeeds no ledger entry is left whose pin is a
\* revision other than "0" that is the merge base of the local and the remote branch or
\* an ancestor of it, whatever the entry's state; and when it fails the ledger is
\* what it was before.
C22_CleanupCollectsMergedPins ==
    [][(last'.op = "CleanupStatusFile" /\ ~crashed') =>
         IF last'.ret
         THEN \A p \in DOMAIN StatusFile'.SavedStates :
                 LET pin == StatusFile'.SavedStates[p].CheckedOutRevision
                 IN  pin = NoPin \/ pin \notin Ancestors(GetMergeBase(HEAD, RemoteHead))
         ELSE StatusFile'.SavedStates = StatusFile.SavedStates]_vars

\* C22, as the code has it: after CleanupStatusFile succeeds no ledger entry saved as
\* unchanged is left whose pin is the merge base of the local and the remote branch,
\* or an ancestor of it that merge-base --is-ancestor answered for; the entries in
\* the states CheckedOut and Conflicted are kept with their pins; and when it fails
\* the ledger is what it was before.
C22_CleanupCollectsUnchangedPins ==
    [][(last'.op = "CleanupStatusFile" /\ ~crashed') =>
         IF last'.ret
         THEN LET MergeBase == GetMergeBase(HEAD, RemoteHead)
              IN  /\ \A p \in DOMAIN StatusFile'.SavedStates :
                        LET e == StatusFile'.SavedStates[p]
                        IN  (ToChar(e.State) = "0" /\ e.CheckedOutRevision # NoPin) =>
                               /\ e.CheckedOutRevision # MergeBase
                               /\ last'.bAncestor =>
                                     e.CheckedOutRevision \notin Ancestors(MergeBase)
                  /\ \A p \in DOMAIN StatusFile.SavedStates :
                        StatusFile.SavedStates[p].State \in {"CheckedOut", "Conflicted"} =>
                           /\ p \in DOMAIN StatusFile'.SavedStates
                           /\ StatusFile'.SavedStates[p] = StatusFile.SavedStates[p]
         ELSE StatusFile'.SavedStates = StatusFile.SavedStates]_vars

\* CleanupStatusFile has succeeded, has cleared an entry, and has kept a CheckedOut
\* entry pinned at an ancestor of the merge base
C22_Witness ==
    /\ last.op = "CleanupStatusFile" /\ last.ret /\ ~crashed
    /\ last.Cleared # {} /\ last.Cleared \cap DOMAIN StatusFile.SavedStates = {}
    /\ \E p \in DOMAIN StatusFile.SavedStates :
          /\ StatusFile.SavedStates[p].State = "CheckedOut"
          /\ StatusFile.SavedStates[p].CheckedOutRevision \in
                Ancestors(GetMergeBase(HEAD, RemoteHead))

\* The documented transitions, (operation, saved state) to saved state
DocumentedTransitions ==
    {<<"CheckOut", 0, 1>>, <<"Sync", 0, 3>>, <<"Revert", 1, 0>>, <<"Resolve", 1, 2>>,
     <<"Revert", 2, 3>>, <<"GetLatest", 2, 1>>, <<"CheckIn", 2, 3>>, <<"CheckOut", 3, 2>>,
     <<"GetLatest", 3, 0>>, <<"Resolve", 6, 1>>}

\* The last call was an operation that acted on file f: its guard on the cached state
\* passed, the checkout of a Revert or Sync found the file in the revision, and the
\* ledger was saved
ActedOn(call, f) ==
    /\ call.acted /\ ~call.saveFailed
    /\ call.op = "GetLatest" \/ call.File = f
    /\ call.outcome \in {"-", "synced"}

\* C23: the ledger entry of a file an operation acts on moves as the documented
\* saved-state machine says: CheckOut 0 -> 1, 3 -> 2 and 4 -> 2; file Sync 0 -> 3;
\* Revert 1 -> 0 and 2 -> 3; Resolve 1 -> 2 and 6 -> 1; GetLatest 2 -> 1, 3 -> 0 and
\* 4 -> 0; Check-In 2 -> 4, pinned at the new commit
C23_SavedStateMachine ==
    [][\A f \in Paths : \A t \in DocumentedTransitions :
          (ActedOn(last', f) /\ last'.op = t[1]
           /\ SavedStateNumber(GetState(StatusFile, f)) = t[2]) =>
             /\ SavedStateNumber(GetState(StatusFile', f)) = t[3]
             /\ t[1] = "CheckIn" => GetState(StatusFile', f).CheckedOutRevision = HEAD']_vars

\* C24: RemoveRedundantErrors(command, filter) leaves as the error list the error
\* lines that do not contain the filter, in their order, and appends the lines that
\* contain it to the info list, in their order; the command is successful afterwards
\* exactly when it was before, or a line was filtered and no error line is left
C24_RedundantErrorsBecomeInfos ==
    [][last'.op = "RemoveRedundantErrors" =>
         LET old == Commands[last'.n]
             new == Commands'[last'.n]
             redundant == SelectSeq(old.ErrorMessages,
                                    LAMBDA l : Contains(l, last'.Filter))
         IN  /\ new.ErrorMessages =
                    SelectSeq(old.ErrorMessages, LAMBDA l : ~Contains(l, last'.Filter))
             /\ new.InfoMessages = old.InfoMessages \o redundant
             /\ new.bCommandSuccessful =
                    (old.bCommandSuccessful
                     \/ (redundant # <<>> /\ new.ErrorMessages = <<>>))
             /\ \A c \in CommandIds \ {last'.n} : Commands'[c] = Commands[c]]_vars

\* A failed command whose two redundant error lines, found without regard to case,
\* were moved behind the info line it had, which promoted it
C24_Witness ==
    /\ last.op = "RemoveRedundantErrors"
    /\ ~last.bWasSuccessful
    /\ last.Filter = <<"P", "p">>
    /\ Commands[1].bCommandSuccessful
    /\ Commands[1].ErrorMessages = <<>>
    /\ Commands[1].InfoMessages = << <<"q">>, <<"p", "p">>, <<"p", "P">> >>

\* File a is checked out in the ledger and not pinned, is on the disk, and neither
\* the working tree, nor a local commit, nor the remote changed it; file b is not in
\* the ledger, is on the disk, unchanged locally, and the remote branch has moved
\* past the merge base with a change to it
Scenario ==
    /\ us.pc \in {"returned", "applied"} /\ us.States # EmptyMap
    /\ GetState(StatusFile, "a") = [State |-> "CheckedOut", CheckedOutRevision |-> NoPin]
    /\ us.ins["a"] = [Diff |-> NoLine, Status |-> "Unchanged", bIsValid |-> TRUE,
                      Remote |-> NoLine, bHasLastChange |-> FALSE, Lock |-> NoLock]
    /\ GetState(StatusFile, "b") = DefaultSavedState
    /\ us.ins["b"].Diff = NoLine /\ us.ins["b"].Status = "Unchanged"
    /\ us.ins["b"].bIsValid /\ us.ins["b"].Lock = NoLock
    /\ us.ins["b"].Remote \in {"Modified", "Deleted"}

\* C25: in the scenario the status update gives a the state CheckedOut, current, and
\* b the state Outdated, not current; a's status is in every field what it is
\* without the remote change
C25_RemoteChangeOfOtherFile ==
    Scenario =>
        /\ us.States["a"] = [FileStatus("CheckedOut", FALSE, "", FALSE) EXCEPT
                                !.CheckedOutRevision = NoPin, !.RemoteState = "Unknown"]
        /\ us.States["b"].WorkingCopyState = "Outdated"
        /\ us.States["b"].bOutdated
        /\ us.pc = "applied" => /\ StateCache["a"] = us.States["a"]
                                /\ StateCache["b"] = us.States["b"]

\* The scenario after the refresh reached the cache, with local commits of its own
\* on the branch
C25_Witness ==
    /\ Scenario /\ us.pc = "applied"
    /\ us.ins["b"].Remote = "Modified"
    /\ HEAD = "c1" /\ RemoteHead = "r1"
    /\ StateCache["b"].RemoteState = "Modified"

\* C26: a status in state ForcedWriteable can be reverted and nothing else: CanRevert
\* holds, and CanCheckIn, CanCheckout, CanDelete, CanEdit, CanLock, CanUnlock and
\* CanForceWriteable do not
C26_ForcedWriteableOnlyReverts ==
    us.st.WorkingCopyState = "ForcedWriteable" =>
        /\ CanRevert(us.st)
        /\ ~CanCheckIn(us.st) /\ ~CanCheckout(us.st) /\ ~CanDelete(us.st)
        /\ ~CanEdit(us.st) /\ ~CanLock(us.st) /\ ~CanUnlock(us.st)
        /\ ~CanForceWriteable(us.st)

\* A status update has ended with a file that is checked out in the ledger, current
\* with the remote, and locked by somebody else
C26_Witness ==
    /\ us.pc = "done"
    /\ us.st.WorkingCopyState = "ForcedWriteable"
    /\ IsCurrent(us.st)
    /\ GetState(StatusFile, us.File).State = "CheckedOut"
    /\ us.in.Status = "Unchanged"

\* C27: the fold of the working-tree state new into the state old gives Modified for
\* (Added, Deleted), Deleted for (Deleted, any), Added for (Modified, Added),
\* Modified for (Modified, Modified), Conflicted for (Conflicted, any); every other
\* combination with new Added or Modified leaves old as it is and logs an error; no
\* other field of the state changes
C27_LocalFoldTable ==
    (us.pc = "folded" /\ us.fold = "local") =>
        LET new == us.Other.WorkingCopyState
            old == us.before.WorkingCopyState
            result == us.st.WorkingCopyState
        IN  /\ us.st = [us.before EXCEPT !.WorkingCopyState = result]
            /\ (new = "Added" /\ old = "Deleted") => result = "Modified"
            /\ new = "Deleted" => result = "Deleted"
            /\ (new = "Modified" /\ old = "Added") => result = "Added"
            /\ (new = "Modified" /\ old = "Modified") => result = "Modified"
            /\ new = "Conflicted" => result = "Conflicted"
            /\ \/ new = "Added" /\ old # "Deleted"
               \/ new = "Modified" /\ old \notin {"Added", "Modified"}
               => result = old /\ us.logged

\* An added file folded into a state parsed as Modified: the state stays Modified
\* and the error is logged
C27_Witness ==
    /\ us.pc = "folded" /\ us.fold = "local"
    /\ us.Other.WorkingCopyState = "Added"
    /\ us.before.WorkingCopyState = "Modified"
    /\ us.st.WorkingCopyState = "Modified" /\ us.logged

\* C28: the fold of the working-tree state new into a state that is Unknown gives
\* new, whatever new is
C28_UnknownTakesNew ==
    (us.pc = "folded" /\ us.fold = "local" /\ us.before.WorkingCopyState = "Unknown") =>
        us.st.WorkingCopyState = us.Other.WorkingCopyState

C30_SavedFoldRules ==
    (us.pc = "folded" /\ us.fold = "saved") =>
        LET old == us.before.WorkingCopyState
            result == us.st.WorkingCopyState
            pin == us.SavedState.CheckedOutRevision
        IN  /\ us.st = [us.before EXCEPT !.WorkingCopyState = result,
                                         !.CheckedOutRevision = pin]
            /\ us.SavedState.State \in {"CheckedOut", "Modified"} =>
                  result = IF old \in {"Unknown", "Unchanged"} THEN "CheckedOut"
                           ELSE IF old = "NotControlled" /\ pin # NoPin THEN "Modified"
                           ELSE old
            /\ us.SavedState.State = "Deleted" => result = old

\* An untracked file whose ledger entry is checked out at a commit is Modified, pinned
\* at that commit
C30_Witness ==
    /\ us.pc = "folded" /\ us.fold = "saved"
    /\ us.SavedState = [State |-> "CheckedOut", CheckedOutRevision |-> "c1"]
    /\ us.before.WorkingCopyState = "NotControlled"
    /\ us.before.CheckedOutRevision = NoPin
    /\ us.st.WorkingCopyState = "Modified" /\ us.st.CheckedOutRevision = "c1"

\* C31 as stated: the fold of a ledger entry makes a state Unchanged only when the
\* file is locally modified and the entry's pin is a commit other than "0" that is a
\* strict ancestor of the local head; under an Unknown or Unchanged entry whose pin is
\* "0", the local head, or no ancestor of the local head, a locally modified state is
\* left as it is
C31_ForcedUnchangedOnlyForAncestor ==
    (us.pc = "folded" /\ us.fold = "saved") =>
        LET old == us.before.WorkingCopyState
            result == us.st.WorkingCopyState
            pin == us.SavedState.CheckedOutRevision
            bStrictAncestor == /\ pin # NoPin /\ pin # us.LocalBranchSha
                               /\ pin \in Ancestors(us.LocalBranchSha)
        IN  /\ (result = "Unchanged" /\ old # "Unchanged") =>
                  (IsModified(us.before) /\ bStrictAncestor)
            /\ (IsModified(us.before) /\ us.SavedState.State \in {"Unknown", "Unchanged"}
                /\ ~bStrictAncestor) => result = old

\* C31 amended: the fold of a ledger entry makes a state Unchanged exactly when the
\* entry is Unknown or Unchanged, the file is locally modified and the entry's pin is
\* neither "0" nor the local head, whether or not the pin is an ancestor of the local
\* head; under an Unknown or Unchanged entry in every other case the state is left as
\* it is
C31_ForcedUnchangedUnlessPinIsHead ==
    (us.pc = "folded" /\ us.fold = "saved") =>
        LET old == us.before.WorkingCopyState
            result == us.st.WorkingCopyState
            pin == us.SavedState.CheckedOutRevision
            bForced == /\ us.SavedState.State \in {"Unknown", "Unchanged"}
                       /\ IsModified(us.before)
                       /\ pin # NoPin /\ pin # us.LocalBranchSha
        IN  /\ (result = "Unchanged" /\ old # "Unchanged") <=> bForced
            /\ (us.SavedState.State \in {"Unknown", "Unchanged"} /\ ~bForced) =>
                  result = old

\* A modified file whose Unchanged entry is pinned at a commit made on top of the
\* local head is Unchanged
C31_Witness ==
    /\ us.pc = "folded" /\ us.fold = "saved"
    /\ us.LocalBranchSha = "c0"
    /\ us.SavedState = [State |-> "Unchanged", CheckedOutRevision |-> "c1"]
    /\ "c1" \notin Ancestors(us.LocalBranchSha)
    /\ us.before.WorkingCopyState = "Modified"
    /\ us.st.WorkingCopyState = "Unchanged"

\* C32 as stated: the fold of a lock held by somebody else records the lock's owner,
\* that it is somebody else's and its id; the state becomes ForcedWriteable only if
\* the file is locally modified, and is otherwise left as it is
C32_ForcedWriteableOnlyIfModified ==
    (us.pc = "folded" /\ us.fold = "locked" /\ us.Other.bLockedByOther) =>
        LET old == us.before.WorkingCopyState
            result == us.st.WorkingCopyState
        IN  /\ us.st.UserLocked = us.Other.UserLocked
            /\ us.st.bLockedByOther /\ us.st.LockId = us.Other.LockId
            /\ (result = "ForcedWriteable" /\ old # "ForcedWriteable") =>
                  IsModified(us.before)
            /\ ~IsModified(us.before) => result = old

\* C32 amended: the fold of a lock held by somebody else records the lock's owner,
\* that it is somebody else's and its id; the state becomes ForcedWriteable exactly
\* when the file is locally modified or checked out (Added, Deleted, Modified,
\* Conflicted, NotControlled, CheckedOut or already ForcedWriteable), and is
\* otherwise left as it is; no other field changes
C32_ForcedWriteableIfModifiedOrCheckedOut ==
    (us.pc = "folded" /\ us.fold = "locked" /\ us.Other.bLockedByOther) =>
        LET old == us.before.WorkingCopyState
            result == us.st.WorkingCopyState
            mine == old \in {"Added", "Deleted", "Modified", "Conflicted", "NotControlled",
                             "CheckedOut", "ForcedWriteable"}
        IN  /\ us.st = [us.before EXCEPT !.WorkingCopyState = result,
                                         !.UserLocked = us.Other.UserLocked,
                                         !.bLockedByOther = TRUE,
                                         !.LockId = us.Other.LockId]
            /\ result = IF mine THEN "ForcedWriteable" ELSE old

\* A file that is checked out and not modified, locked by somebody else, is
\* ForcedWriteable
C32_Witness ==
    /\ us.pc = "folded" /\ us.fold = "locked"
    /\ us.Other.bLockedByOther /\ us.Other.UserLocked = "other"
    /\ us.before.WorkingCopyState = "CheckedOut" /\ ~IsModified(us.before)
    /\ us.st.WorkingCopyState = "ForcedWriteable"
    /\ us.st.UserLocked = "other" /\ us.st.LockId = 2

\* C33: the fold of a lock held by the local user turns the states Unknown and
\* Unchanged into CheckedOut and leaves each of Added, Deleted, Modified, Outdated,
\* Conflicted, NotControlled and CheckedOut as it is; in both cases the outdated flag,
\* the remote state and the pin are unchanged
C33_OwnLockImpliesCheckOut ==
    (us.pc = "folded" /\ us.fold = "locked" /\ IsLockedByMe(us.Other)) =>
        LET old == us.before.WorkingCopyState
            result == us.st.WorkingCopyState
        IN  /\ old \in {"Unknown", "Unchanged"} => result = "CheckedOut"
            /\ old \in {"Added", "Deleted", "Modified", "Outdated", "Conflicted",
                        "NotControlled", "CheckedOut"} => result = old
            /\ us.st.bOutdated = us.before.bOutdated
            /\ us.st.RemoteState = us.before.RemoteState
            /\ us.st.CheckedOutRevision = us.before.CheckedOutRevision

\* An Unchanged file that is outdated, pinned at a commit and modified on the remote,
\* locked by the local user, is CheckedOut and still outdated, pinned and modified
\* on the remote
C33_Witness ==
    /\ us.pc = "folded" /\ us.fold = "locked" /\ IsLockedByMe(us.Other)
    /\ us.before.WorkingCopyState = "Unchanged" /\ us.before.bOutdated
    /\ us.before.CheckedOutRevision = "c0" /\ us.before.RemoteState = "Modified"
    /\ us.st.WorkingCopyState = "CheckedOut" /\ us.st.bOutdated
    /\ us.st.CheckedOutRevision = "c0" /\ us.st.RemoteState = "Modified"
    /\ IsLockedByMe(us.st)

\* C34: ResolveConflict(OldState) sets the state to OldState and the outdated flag to
\* false, except that the state is Added when the remote state is Deleted and the
\* file is on the disk; the remote state, the pin and the lock fields are unchanged
C34_ResolveRestoresOldState ==
    (us.pc = "folded" /\ us.fold = "resolve") =>
        /\ us.st.WorkingCopyState =
              IF us.before.RemoteState = "Deleted" /\ us.in.bIsValid THEN "Added"
              ELSE us.OldState
        /\ ~us.st.bOutdated
        /\ us.st.RemoteState = us.before.RemoteState
        /\ us.st.CheckedOutRevision = us.before.CheckedOutRevision
        /\ us.st.UserLocked = us.before.UserLocked
        /\ us.st.bLockedByOther = us.before.bLockedByOther
        /\ us.st.LockId = us.before.LockId

\* A conflicted, outdated file deleted on the remote and still on the disk, locked by
\* the local user and pinned at a commit, resolved with the state Modified, is Added
\* and current, and keeps the remote state, the pin and the lock
C34_Witness ==
    /\ us.pc = "folded" /\ us.fold = "resolve"
    /\ us.before.WorkingCopyState = "Conflicted" /\ us.before.bOutdated
    /\ us.before.RemoteState = "Deleted" /\ us.in.bIsValid
    /\ us.before.CheckedOutRevision = "c0" /\ us.before.UserLocked = "me"
    /\ us.OldState = "Modified"
    /\ us.st.WorkingCopyState = "Added" /\ ~us.st.bOutdated
    /\ us.st.RemoteState = "Deleted" /\ us.st.CheckedOutRevision = "c0"
    /\ us.st.UserLocked = "me" /\ us.st.LockId = 1

\* C35: UpdateCachedStates replaces the cached state of a file by a new one exactly
\* when the two differ in the working state, the remote state, the outdated flag, the
\* staged flag, the pin, the lock's owner or whether the lock is somebody else's (the
\* path is the key the cached state is found by); a replaced state keeps the cached
\* history; a state that is equal on those fields is left as it is and is not counted
C35_RepublishOnlyOnChange ==
    (us.pc = "cached" /\ last.op = "UpdateCachedStates") =>
        LET bDiffers ==
                \/ us.before.WorkingCopyState # us.Other.WorkingCopyState
                \/ us.before.RemoteState # us.Other.RemoteState
                \/ us.before.bOutdated # us.Other.bOutdated
                \/ us.before.bStaged # us.Other.bStaged
                \/ us.before.CheckedOutRevision # us.Other.CheckedOutRevision
                \/ us.before.UserLocked # us.Other.UserLocked
                \/ us.before.bLockedByOther # us.Other.bLockedByOther
        IN  /\ StateCache[us.File] = us.st
            /\ bDiffers => /\ us.st = [us.Other EXCEPT !.History = us.before.History]
                           /\ last.ret /\ last.n = 1
            /\ ~bDiffers => /\ us.st = us.before
                            /\ ~last.ret /\ last.n = 0

\* A cached state with a history replaced by a state with another working state and
\* no history: the new state is cached with the old history
C35_Witness ==
    /\ us.pc = "cached" /\ last.op = "UpdateCachedStates" /\ last.ret
    /\ us.before.WorkingCopyState = "Unknown" /\ us.before.History = <<"c0">>
    /\ us.Other.WorkingCopyState = "Modified" /\ us.Other.History = <<>>
    /\ StateCache[us.File].WorkingCopyState = "Modified"
    /\ StateCache[us.File].History = <<"c0">>

\* A state that differs from the cached one in the lock's id and the history only is
\* not cached
C35_WitnessEqual ==
    /\ us.pc = "cached" /\ last.op = "UpdateCachedStates" /\ ~last.ret
    /\ us.before.LockId = 1 /\ us.Other.LockId = 3
    /\ us.before.History # us.Other.History
    /\ StateCache[us.File] = us.before

\* C36: a synchronous Execute call returns: once ExecuteSynchronousCommand has issued
\* its command, the wait loop ends and the call returns, also when IssueCommand could
\* not give the command to the thread pool
C36_SynchronousExecuteReturns ==
    (syncCmd # 0) ~> (syncCmd = 0 \/ crashed)

\* With a thread pool a synchronous Execute call returns
C36_ReturnsWithThreadPool ==
    (syncCmd # 0 /\ GThreadPool) ~> (syncCmd = 0 \/ crashed)

\* ExecuteSynchronousCommand waits for a command that IssueCommand gave to nobody
C36_WaitsForUnqueuedWork ==
    /\ syncCmd # 0 /\ ~GThreadPool
    /\ ~Commands[syncCmd].bQueuedWork /\ ~Commands[syncCmd].bExecuteProcessed
    /\ CommandQueue = <<>>

\* C37: a command one of whose backend steps failed is not reported as successful: a
\* Sync that has returned after its stash pop, its index reset or its last status
\* refresh failed has bCommandSuccessful false
C37_FailedStepIsReportedFailed ==
    (sy.pc \in {"returned", "applied"}
     /\ (sy.popFailed \/ sy.resetFailed
         \/ (sy.exit \in {"end", "files"} /\ ~sy.refreshed))) =>
        ~sy.bCommandSuccessful

\* C37 for a CheckOut: a processed CheckOut whose status refresh failed has
\* bCommandSuccessful false
C37_CheckOutRefreshFailedIsFailed ==
    \A c \in CommandIds :
        (Commands[c].bExecuteProcessed /\ Commands[c].bRefreshFailed) =>
            ~Commands[c].bCommandSuccessful

\* A Sync of everything whose stash pop failed has returned from its end as a success
C37_PopFailedReportedSucceeded ==
    /\ sy.pc = "returned" /\ sy.exit = "end"
    /\ sy.popFailed /\ sy.bCommandSuccessful

\* The step of a Sync that fails after its snapshot and calls Cleanup
SyncCleanupStep ==
    /\ sy.pc # "returned"
    /\ sy'.pc = "returned"
    /\ sy'.exit \in {"diff", "rebase", "save"}
    /\ ~crashed'

\* C38: the Cleanup of a Sync that failed after taking its snapshot leaves the ledger as
\* it was when the snapshot was taken, whatever another command saved in between
C38_SnapshotSurvivesOtherCommands ==
    [][SyncCleanupStep => StatusFile'.SavedStates = sy.snapshot]_vars

\* With another command running, the Cleanup of a failed Sync never leaves the ledger
\* empty when the snapshot had entries
C38_CleanupNeverEmptiesLedger ==
    [][(SyncCleanupStep /\ sy.snapshot # EmptyMap) =>
            StatusFile'.SavedStates # EmptyMap]_vars

\* A CheckOut saved the ledger after the Sync's snapshot, and the ledger is different
\* from the snapshot and has entries while the Sync is at a step that can fail
C38_SavedAfterSnapshot ==
    /\ sy.pc \in {"diff", "pull", "resolve"}
    /\ sy.snapshot # EmptyMap
    /\ Commands[1].bExecuteProcessed /\ Commands[1].bCommandSuccessful
    /\ StatusFile.SavedStates # sy.snapshot
    /\ StatusFile.CachedStates = EmptyMap

\* The file's ledger entry is the one a Resolve wrote, CheckedOut and pinned at the
\* remote head of then, and a status update has run since
AfterResolve ==
    /\ us.resolved
    /\ us.pc = "updated"
    /\ GetState(StatusFile, "a").State = "CheckedOut"
    /\ GetState(StatusFile, "a").CheckedOutRevision # NoPin

\* The remote branch's last change of the file is the pin of the Resolve or an
\* ancestor of it
PinHasLastChange ==
    LET LastChanged == LastChangedRev(RemoteHead, us.Changed)
    IN  LastChanged = NoRef
        \/ LastChanged \in Ancestors(GetState(StatusFile, "a").CheckedOutRevision)

\* The status update asked git log for the remote branch's last change of the file,
\* and git log failed
LogFailed ==
    /\ us.in.Remote # NoLine
    /\ GetState(StatusFile, "a").CheckedOutRevision # RemoteHead
    /\ PinHasLastChange
    /\ ~us.in.bHasLastChange

C39_ConflictedAgain ==
    /\ AfterResolve /\ us.in.Status # "Conflicted"
    /\ ~PinHasLastChange
    /\ IsConflicted(us.st) /\ us.st.bOutdated

\* The remote branch has a change of the file made after the Resolve, the file is
\* not on the disk, and the status update reports it Deleted and not outdated
C39_DeletedNotConflicted ==
    /\ AfterResolve /\ ~PinHasLastChange /\ ~us.in.bIsValid
    /\ us.st.WorkingCopyState = "Deleted" /\ ~us.st.bOutdated

\* C40: a status the pipeline stored in the cache is outdated when its working state
\* is Outdated or Missing, and when it is outdated its working state is Outdated,
\* Missing, Conflicted or ForcedWriteable
C40_OutdatedFlagAgreesWithState ==
    us.pc = "cached" =>
        LET State == StateCache["a"]
        IN  /\ State.WorkingCopyState \in {"Outdated", "Missing"} => State.bOutdated
            /\ State.bOutdated =>
                   State.WorkingCopyState \in
                       {"Outdated", "Missing", "Conflicted", "ForcedWriteable"}

\* A file somebody else holds the lock of, changed here and on the remote: stored in
\* the cache as ForcedWriteable and outdated
C40_Witness ==
    /\ us.pc = "cached"
    /\ us.in.Remote = "Modified" /\ us.in.Lock.bLockedByOther
    /\ StateCache["a"].WorkingCopyState = "ForcedWriteable"
    /\ StateCache["a"].bOutdated

\* A file only the remote has: stored in the cache as Missing and outdated
C40_WitnessMissing ==
    /\ us.pc = "cached"
    /\ StateCache["a"].WorkingCopyState = "Missing"
    /\ StateCache["a"].bOutdated

\* A file the remote changed and nobody else: stored in the cache as Outdated
C40_WitnessOutdated ==
    /\ us.pc = "cached"
    /\ StateCache["a"].WorkingCopyState = "Outdated"
    /\ StateCache["a"].bOutdated

\* A file whose conflict was resolved at its pin: stored in the cache with the state
\* it had and not outdated
C40_WitnessResolved ==
    /\ us.pc = "cached"
    /\ us.in.Remote = "Modified" /\ us.in.bHasLastChange
    /\ StateCache["a"].WorkingCopyState = "CheckedOut"
    /\ ~StateCache["a"].bOutdated

=============================================================================
